---- MODULE Spec2Model ----
(***************************************************************************)
(* A model of the caniuse compatibility server: the configuration          *)
(* resolver (src/src/config-manager.js), the support matrix lookup and     *)
(* feature support resolver (src/src/caniuse-client.js), the aggregator    *)
(* (src/src/enhanced-compatibility-checker.js) and the tool handlers       *)
(* (src/src/enhanced-tools.js).                                            *)
(*                                                                         *)
(* JavaScript strings that the code takes apart (target tokens, browser    *)
(* names, version strings) are sequences of one-character strings, so that *)
(* the regular expression of resolveTargetVersion and parseFloat are       *)
(* computed on the characters.  Feature identifiers and support codes are  *)
(* only compared for equality by the code and are TLA+ strings.            *)
(***************************************************************************)
EXTENDS Integers, Sequences, FiniteSets, TLC

VARIABLES
    file,      \* .caniuse-config.json: absent, or the object it holds
    env,       \* what _loadFromEnvironment reads from process.env
    cm,        \* this.config of each of the three ConfigManager instances
    cache,     \* CanIUseClient.cache: feature -> {data, timestamp}
    remote,    \* the support data the caniuse service holds for each feature
    now,       \* Date.now(), in milliseconds
    input,     \* arguments of the call being made
    result     \* what the last call returned

vars == <<file, env, cm, cache, remote, now, input, result>>

----------------------------------------------------------------------------
(* Strings *)

Digit == {"0", "1", "2", "3", "4", "5", "6", "7", "8", "9"}

LowerCase == {"a", "b", "c", "d", "e", "f", "g", "h", "i", "j", "k", "l", "m",
              "n", "o", "p", "q", "r", "s", "t", "u", "v", "w", "x", "y", "z"}

\* the characters of the strings of this model; a JavaScript value that is
\* not a string is a sequence holding something else
Char == Digit \cup LowerCase \cup {"-", ".", "C"}

IsString(v) == \A i \in 1..Len(v) : v[i] \in Char

\* the number 37 passed where a string is expected
number37 == <<"number 37">>

DigitVal(c) == CHOOSE n \in 0..9 : <<"0", "1", "2", "3", "4", "5", "6", "7", "8", "9">>[n + 1] = c

chrome  == <<"c", "h", "r", "o", "m", "e">>
firefox == <<"f", "i", "r", "e", "f", "o", "x">>
safari  == <<"s", "a", "f", "a", "r", "i">>
ie      == <<"i", "e">>
edge    == <<"e", "d", "g", "e">>
opera   == <<"o", "p", "e", "r", "a">>
mobile  == <<"m", "o", "b", "i", "l", "e">>
hyphen  == <<"-">>
latest  == <<"l", "a", "t", "e", "s", "t">>
legacy  == <<"l", "e", "g", "a", "c", "y">>
esr     == <<"e", "s", "r">>
v11     == <<"1", "1">>
v12     == <<"1", "2">>
v18     == <<"1", "8">>
v37     == <<"3", "7">>
v57     == <<"5", "7">>
v60     == <<"6", "0">>
v78     == <<"7", "8">>
v4      == <<"4">>
v4x4    == <<"4", ".", "4">>
v4x4x2  == <<"4", ".", "4", ".", "2">>
v4x4x3  == <<"4", ".", "4", ".", "3", "-", "4", ".", "4", ".", "4">>

\* the JavaScript values null / undefined where a string is expected: like
\* the empty string they are falsy
NoString == <<>>
\* null / undefined where a support code is expected
NoCode == "null"

Truthy(s) == s # NoString

----------------------------------------------------------------------------
(* parseFloat: the longest prefix digits [ "." digits ]; NaN when that     *)
(* prefix holds no digit.  The strings of this model carry no leading      *)
(* white space, sign or exponent.  A number is its integer part and the    *)
(* digits of its fraction without trailing zeros, so that equal numbers    *)
(* are equal values.                                                       *)

NaN == [nan |-> TRUE, int |-> 0, frac |-> <<>>]

isNaN(x) == x.nan

RECURSIVE DigitRunEnd(_, _)
DigitRunEnd(s, i) ==
    IF i <= Len(s) /\ s[i] \in Digit THEN DigitRunEnd(s, i + 1) ELSE i

RECURSIVE IntOf(_)
IntOf(ds) ==
    IF ds = <<>> THEN 0
    ELSE 10 * IntOf(SubSeq(ds, 1, Len(ds) - 1)) + DigitVal(ds[Len(ds)])

RECURSIVE StripZeros(_)
StripZeros(ds) ==
    IF ds # <<>> /\ ds[Len(ds)] = "0" THEN StripZeros(SubSeq(ds, 1, Len(ds) - 1))
    ELSE ds

parseFloat(s) ==
    LET e1     == DigitRunEnd(s, 1)
        hasDot == e1 <= Len(s) /\ s[e1] = "."
        e2     == IF hasDot THEN DigitRunEnd(s, e1 + 1) ELSE e1
        intDs  == SubSeq(s, 1, e1 - 1)
        fracDs == IF hasDot THEN SubSeq(s, e1 + 1, e2 - 1) ELSE <<>>
    IN  IF intDs = <<>> /\ fracDs = <<>> THEN NaN
        ELSE [nan |-> FALSE, int |-> IntOf(intDs), frac |-> StripZeros(fracDs)]

\* a < b on fractions given by their digits
RECURSIVE FracLess(_, _)
FracLess(a, b) ==
    IF b = <<>> THEN FALSE
    ELSE IF a = <<>> THEN TRUE
    ELSE IF a[1] # b[1] THEN DigitVal(a[1]) < DigitVal(b[1])
    ELSE FracLess(Tail(a), Tail(b))

\* a < b, a <= b on numbers that are not NaN
NumLess(a, b) == a.int < b.int \/ (a.int = b.int /\ FracLess(a.frac, b.frac))
NumLeq(a, b)  == a = b \/ NumLess(a, b)

----------------------------------------------------------------------------
(* Objects: a JSON object is the sequence of its <<key, value>> pairs in   *)
(* insertion order, no key twice.                                          *)

\* Body at the value of x: the result of a call that the code stores in a
\* local and reads several times is computed once
Once(x, Body(_)) == CHOOSE out \in {Body(v) : v \in {x}} : TRUE

RECURSIVE KeysOf(_)
KeysOf(obj) == IF obj = <<>> THEN <<>> ELSE <<obj[1][1]>> \o KeysOf(Tail(obj))

Has(obj, k) == \E i \in 1..Len(obj) : obj[i][1] = k

Get(obj, k) == obj[CHOOSE i \in 1..Len(obj) : obj[i][1] = k][2]

\* a key that is an array index: "0", or digits without a leading zero
IsIndexKey(k) ==
    /\ k # <<>>
    /\ \A i \in 1..Len(k) : k[i] \in Digit
    /\ (k[1] = "0" => Len(k) = 1)

\* stable insertion of the key x into the keys s sorted by their integer
RECURSIVE InsertIndexKey(_, _)
InsertIndexKey(s, x) ==
    IF s = <<>> THEN <<x>>
    ELSE IF IntOf(x) < IntOf(s[1]) THEN <<x>> \o s
    ELSE <<s[1]>> \o InsertIndexKey(Tail(s), x)

RECURSIVE SortIndexKeys(_)
SortIndexKeys(s) ==
    IF s = <<>> THEN <<>>
    ELSE InsertIndexKey(SortIndexKeys(SubSeq(s, 1, Len(s) - 1)), s[Len(s)])

\* Object.keys: the index keys in ascending order, then the other keys in
\* insertion order
ObjectKeys(obj) ==
    LET ks        == KeysOf(obj)
        IsIdx(k)  == IsIndexKey(k)
        NotIdx(k) == ~IsIndexKey(k)
    IN  SortIndexKeys(SelectSeq(ks, IsIdx)) \o SelectSeq(ks, NotIdx)

\* a configuration map (overrides, customTargets, browserFallbacks) is a
\* function on its keys; { ...a, ...b }
Spread(a, b) ==
    [k \in (DOMAIN a) \cup (DOMAIN b) |-> IF k \in DOMAIN b THEN b[k] ELSE a[k]]

EmptyMap == <<>>

----------------------------------------------------------------------------
(* Support matrix lookup: CanIUseClient.getBrowserSupport                  *)

\* the support codes of the status table, and one the table does not hold
Codes == {"y", "a", "n", "d", "p", "u", "y x"}

\* featureData.stats[browser][key], undefined when the key is missing
ValueAt(entry, key) == IF Has(entry, key) THEN Get(entry, key) ELSE NoCode

CodeTruthy(c) == c # NoCode /\ c # ""

\* config.browserFallbacks[browser] || []
getFallbackVersions(config, browser) ==
    IF browser \in DOMAIN config.browserFallbacks
    THEN config.browserFallbacks[browser]
    ELSE <<>>

\* a lookup that lets a later fallback version win over an earlier one
RECURSIVE FirstFallback_LastWins(_, _, _)
FirstFallback_LastWins(entry, fallbackVersions, i) ==
    IF i > Len(fallbackVersions) THEN NoCode
    ELSE IF CodeTruthy(FirstFallback_LastWins(entry, fallbackVersions, i + 1))
         THEN FirstFallback_LastWins(entry, fallbackVersions, i + 1)
         ELSE ValueAt(entry, fallbackVersions[i])

\* the code of the first fallback version, from position i on, that the
\* matrix holds; NoCode when there is none
RECURSIVE FirstFallback(_, _, _)
FirstFallback(entry, fallbackVersions, i) ==
    IF i > Len(fallbackVersions) THEN NoCode
    ELSE IF CodeTruthy(ValueAt(entry, fallbackVersions[i]))
         THEN ValueAt(entry, fallbackVersions[i])
         ELSE FirstFallback(entry, fallbackVersions, i + 1)

RECURSIVE InsertNumeric(_, _)
InsertNumeric(s, x) ==
    IF s = <<>> THEN <<x>>
    ELSE IF NumLess(x.numeric, s[1].numeric) THEN <<x>> \o s
    ELSE <<s[1]>> \o InsertNumeric(Tail(s), x)

\* .sort((a, b) => a.numeric - b.numeric)
RECURSIVE SortNumeric(_)
SortNumeric(s) ==
    IF s = <<>> THEN <<>>
    ELSE InsertNumeric(SortNumeric(SubSeq(s, 1, Len(s) - 1)), s[Len(s)])

\* availableVersions.map(...).filter(v => !isNaN(v.numeric)).sort(...)
numericVersions(entry) ==
    LET availableVersions == ObjectKeys(entry)
        mapped == [i \in 1..Len(availableVersions) |->
                     [version |-> availableVersions[i],
                      numeric |-> parseFloat(availableVersions[i])]]
        NotNaN(v) == ~isNaN(v.numeric)
    IN  SortNumeric(SelectSeq(mapped, NotNaN))

\* a loop that skips versions above the target instead of stopping, and
\* compares the wrong way round
RECURSIVE ClosestLoop_Above(_, _, _, _)
ClosestLoop_Above(nv, targetNumeric, i, closest) ==
    IF i > Len(nv) THEN closest
    ELSE IF NumLeq(targetNumeric, nv[i].numeric)
         THEN ClosestLoop_Above(nv, targetNumeric, i + 1, nv[i].version)
         ELSE ClosestLoop_Above(nv, targetNumeric, i + 1, closest)

\* the loop over numericVersions: the last version, before the first one
\* above the target, that is <= the target
RECURSIVE ClosestLoop(_, _, _, _)
ClosestLoop(nv, targetNumeric, i, closest) ==
    IF i > Len(nv) THEN closest
    ELSE IF NumLeq(nv[i].numeric, targetNumeric)
         THEN ClosestLoop(nv, targetNumeric, i + 1, nv[i].version)
         ELSE closest

\* the version the closest-version step selects; NoString when the target
\* is not numeric or no version is <= the target
closestVersion(entry, version) ==
    LET targetNumeric == parseFloat(version)
    IN  IF isNaN(targetNumeric) THEN NoString
        ELSE ClosestLoop(numericVersions(entry), targetNumeric, 1, NoString)

\* the highest version in place of the lowest
lowestVersion_Highest(entry) ==
    IF numericVersions(entry) = <<>> THEN NoString
    ELSE numericVersions(entry)[Len(numericVersions(entry))].version

\* numericVersions[0]?.version
lowestVersion(entry) ==
    IF numericVersions(entry) = <<>> THEN NoString
    ELSE numericVersions(entry)[1].version

getBrowserSupport(featureData, browser, version, config) ==
    IF ~featureData.hasStats \/ browser \notin DOMAIN featureData.stats
    THEN NoCode
    ELSE
      LET entry    == featureData.stats[browser]
          fallback == FirstFallback(entry, getFallbackVersions(config, browser), 1)
          closest  == closestVersion(entry, version)
          lowest   == lowestVersion(entry)
      IN  IF CodeTruthy(ValueAt(entry, version)) THEN ValueAt(entry, version)
          ELSE IF CodeTruthy(fallback) THEN fallback
          ELSE IF Len(ObjectKeys(entry)) > 0
               THEN IF Truthy(closest) /\ CodeTruthy(ValueAt(entry, closest))
                    THEN ValueAt(entry, closest)
                    ELSE IF Truthy(lowest) /\ CodeTruthy(ValueAt(entry, lowest))
                         THEN ValueAt(entry, lowest)
                         ELSE NoCode
               ELSE NoCode

----------------------------------------------------------------------------
(* Configuration: ConfigManager                                            *)

Token(browser, version) == browser \o hyphen \o version

\* ConfigManager.defaultConfig
defaultConfig ==
    [defaultBaseline  |-> Token(chrome, v37),
     customTargets    |-> EmptyMap,
     polyfills        |-> <<>>,
     overrides        |-> EmptyMap,
     browserFallbacks |-> (chrome :> <<v37>>) @@ (firefox :> <<v78>>) @@
                          (safari :> <<v12>>) @@ (ie :> <<v11>>) @@
                          (edge :> <<v18>>)]

\* the built-in targets of getBrowserTargets
builtInTargets ==
    (Token(chrome, v37) :> [browser |-> chrome, version |-> v37]) @@
    (Token(chrome, latest) :> [browser |-> chrome, version |-> latest]) @@
    (Token(firefox, esr) :> [browser |-> firefox, version |-> v78]) @@
    (Token(safari, v12) :> [browser |-> safari, version |-> v12]) @@
    (Token(ie, v11) :> [browser |-> ie, version |-> v11]) @@
    (Token(edge, legacy) :> [browser |-> edge, version |-> v18])

\* custom targets that replace the built-in table
getBrowserTargets_CustomOnly(config) ==
    IF DOMAIN config.customTargets = {} THEN builtInTargets ELSE config.customTargets

\* { ...builtInTargets, ...config.customTargets }
getBrowserTargets(config) == Spread(builtInTargets, config.customTargets)

RECURSIVE LowerRunEnd(_, _)
LowerRunEnd(s, i) ==
    IF i <= Len(s) /\ s[i] \in LowerCase THEN LowerRunEnd(s, i + 1) ELSE i

\* a split at the last hyphen instead of the first
MatchBrowserVersion_LastHyphen(targetString) ==
    LET hyphens == {k \in 2..(Len(targetString) - 1) : targetString[k] = "-"}
        n == CHOOSE k \in hyphens : \A k2 \in hyphens : k2 <= k
    IN  IF hyphens # {} /\ LowerRunEnd(targetString, 1) \in hyphens
        THEN [matched |-> TRUE,
              browser |-> SubSeq(targetString, 1, n - 1),
              version |-> SubSeq(targetString, n + 1, Len(targetString))]
        ELSE [matched |-> FALSE, browser |-> NoString, version |-> NoString]

\* targetString.match(/^([a-z]+)-(.+)$/): the lower-case letters up to the
\* first hyphen, and the non-empty rest
MatchBrowserVersion(targetString) ==
    LET n == LowerRunEnd(targetString, 1)
    IN  IF n > 1 /\ n < Len(targetString) /\ targetString[n] = "-"
        THEN [matched |-> TRUE,
              browser |-> SubSeq(targetString, 1, n - 1),
              version |-> SubSeq(targetString, n + 1, Len(targetString))]
        ELSE [matched |-> FALSE, browser |-> NoString, version |-> NoString]

Returned(target) ==
    [threw |-> FALSE, browser |-> target.browser, version |-> target.version]

\* a TypeError: targetString.match is not a function
Thrown == [threw |-> TRUE, browser |-> NoString, version |-> NoString]

\* ConfigManager.resolveTargetVersion on the loaded configuration
resolveTargetVersion(config, targetString) ==
    LET targets == getBrowserTargets(config)
        match   == MatchBrowserVersion(targetString)
    IN  IF targetString \in DOMAIN targets THEN Returned(targets[targetString])
        ELSE IF ~IsString(targetString) THEN Thrown
        ELSE IF match.matched THEN Returned(match)
        ELSE IF config.defaultBaseline \in DOMAIN targets
             THEN Returned(targets[config.defaultBaseline])
        ELSE Returned([browser |-> chrome, version |-> v37])

NoFile == [exists |-> FALSE, content |-> EmptyMap]

FileWith(content) == [exists |-> TRUE, content |-> content]

\* the ConfigManager of enhanced-tools.js, of the EnhancedCompatibilityChecker
\* and of its CanIUseClient
Managers == {"tools", "checker", "client"}

\* this.config = null
Null == [null |-> TRUE]

NotLoaded == [m \in Managers |-> Null]

\* obj.name || dflt, for a field that is absent or holds a list or an object
Field(obj, name, dflt) == IF name \in DOMAIN obj THEN obj[name] ELSE dflt

\* what process.env holds for a variable that is parsed: its text, whether
\* JSON.parse accepts the text, and the value JSON.parse yields then
EnvText(text, parses, json) == [text |-> text, parses |-> parses, json |-> json]

\* the number 5 where a list is expected: a value that cannot be spread
\* into an array
number5 == <<"number 5">>

RECURSIVE Split(_)
\* text.split(',')
Split(text) ==
    LET commas == {i \in 1..Len(text) : text[i] = ","}
        first  == CHOOSE i \in commas : \A j \in commas : i <= j
    IN  IF commas = {} THEN <<text>>
        ELSE <<SubSeq(text, 1, first - 1)>> \o Split(SubSeq(text, first + 1, Len(text)))

RECURSIVE Trim(_)
\* p.trim() for a text whose only white space is the blank
Trim(text) ==
    IF text # <<>> /\ text[1] = " " THEN Trim(Tail(text))
    ELSE IF text # <<>> /\ text[Len(text)] = " "
    THEN Trim(SubSeq(text, 1, Len(text) - 1))
    ELSE text

RECURSIVE NameOf(_)
\* the identifier that the characters spell
NameOf(text) == IF text = <<>> THEN "" ELSE text[1] \o NameOf(Tail(text))

\* ConfigManager._loadFromEnvironment: a variable that is unset or empty
\* sets nothing; CANIUSE_POLYFILLS is the parsed JSON, else the trimmed
\* parts between its commas; CANIUSE_OVERRIDES is the parsed JSON, else
\* nothing
loadFromEnvironment(processEnv) ==
    LET Set(name) == name \in DOMAIN processEnv
        baseline  == processEnv["CANIUSE_DEFAULT_BASELINE"]
        polyfills == processEnv["CANIUSE_POLYFILLS"]
        overrides == processEnv["CANIUSE_OVERRIDES"]
        parts     == Split(polyfills.text)
    IN  (IF Set("CANIUSE_DEFAULT_BASELINE") /\ Truthy(baseline)
         THEN [defaultBaseline |-> baseline] ELSE EmptyMap) @@
        (IF Set("CANIUSE_POLYFILLS") /\ Truthy(polyfills.text)
         THEN [polyfills |-> IF polyfills.parses THEN polyfills.json
                             ELSE [i \in 1..Len(parts) |-> NameOf(Trim(parts[i]))]]
         ELSE EmptyMap) @@
        (IF Set("CANIUSE_OVERRIDES") /\ Truthy(overrides.text) /\ overrides.parses
         THEN [overrides |-> overrides.json] ELSE EmptyMap)

\* what the try block of loadConfig leaves in fileConfig: {} for a file that
\* is absent, cannot be read or is no JSON, else the parsed content
ReadConfigFile(fileNow) ==
    IF fileNow.exists /\ Field(fileNow, "readable", TRUE) /\ Field(fileNow, "parses", TRUE)
    THEN fileNow.content
    ELSE EmptyMap

\* the merge of loadConfig throws a TypeError: fileConfig.customTargets of
\* null, or the spread of a polyfills value that is no list
MergeThrows(fileConfig, envConfig) ==
    \/ fileConfig = Null
    \/ Field(fileConfig, "polyfills", <<>>) = number5
    \/ Field(envConfig, "polyfills", <<>>) = number5

\* a merge in which the file wins over the environment
MergeConfig_FileWins(fileConfig, envConfig) ==
    [defaultBaseline  |->
        Field(fileConfig, "defaultBaseline",
              Field(envConfig, "defaultBaseline", defaultConfig.defaultBaseline)),
     customTargets    |->
        Spread(defaultConfig.customTargets, Field(fileConfig, "customTargets", EmptyMap)),
     polyfills        |->
        defaultConfig.polyfills \o Field(envConfig, "polyfills", <<>>)
                                \o Field(fileConfig, "polyfills", <<>>),
     overrides        |->
        Spread(Spread(defaultConfig.overrides,
                      Field(envConfig, "overrides", EmptyMap)),
               Field(fileConfig, "overrides", EmptyMap)),
     browserFallbacks |->
        Spread(defaultConfig.browserFallbacks,
               Field(fileConfig, "browserFallbacks", EmptyMap))]

\* the merge of loadConfig: default < file < environment
MergeConfig(fileConfig, envConfig) ==
    [defaultBaseline  |->
        Field(envConfig, "defaultBaseline",
              Field(fileConfig, "defaultBaseline", defaultConfig.defaultBaseline)),
     customTargets    |->
        Spread(Spread(defaultConfig.customTargets,
                      Field(fileConfig, "customTargets", EmptyMap)),
               Field(envConfig, "customTargets", EmptyMap)),
     polyfills        |->
        defaultConfig.polyfills \o Field(fileConfig, "polyfills", <<>>)
                                \o Field(envConfig, "polyfills", <<>>),
     overrides        |->
        Spread(Spread(defaultConfig.overrides,
                      Field(fileConfig, "overrides", EmptyMap)),
               Field(envConfig, "overrides", EmptyMap)),
     browserFallbacks |->
        Spread(Spread(defaultConfig.browserFallbacks,
                      Field(fileConfig, "browserFallbacks", EmptyMap)),
               Field(envConfig, "browserFallbacks", EmptyMap))]

\* a loadConfig that reads the file and the environment on every call
loadConfig_NoCache(config, fileNow, envNow) ==
    MergeConfig(ReadConfigFile(fileNow), envNow)

\* ConfigManager.loadConfig: the cached configuration, else the merge of the
\* file as it is now with the environment
loadConfig(config, fileNow, envNow) ==
    IF config # Null THEN config
    ELSE MergeConfig(ReadConfigFile(fileNow), envNow)

\* loadConfig throws: nothing is cached and the merge throws
loadConfigThrows(config, fileNow, envNow) ==
    config = Null /\ MergeThrows(ReadConfigFile(fileNow), envNow)

\* a test of the head of the list only
isFeaturePolyfilled_HeadOnly(config, featureName) ==
    config.polyfills # <<>> /\ config.polyfills[1] = featureName

\* config.polyfills.includes(featureName)
isFeaturePolyfilled(config, featureName) ==
    \E i \in 1..Len(config.polyfills) : config.polyfills[i] = featureName

\* an override that counts only when it forces support
getFeatureOverride_SupportedOnly(config, featureName) ==
    IF featureName \in DOMAIN config.overrides
       /\ config.overrides[featureName] = "supported"
    THEN config.overrides[featureName] ELSE ""

\* config.overrides[featureName]; "" stands for undefined
getFeatureOverride(config, featureName) ==
    IF featureName \in DOMAIN config.overrides
    THEN config.overrides[featureName] ELSE ""



NoResult == [op |-> "none"]

\* ConfigManager.updateConfig on the cached configuration (possibly changed
\* in place by the caller): the merged configuration is written, the cache
\* dropped and the file loaded again; a failed write throws before that
updateConfig(cached, fileNow, envNow, updates, writeOk) ==
    LET config    == loadConfig(cached, fileNow, envNow)
        newConfig == Spread(config, updates)
    IN  IF writeOk
        THEN [threw  |-> FALSE,
              file   |-> FileWith(newConfig),
              config |-> loadConfig(Null, FileWith(newConfig), envNow)]
        ELSE [threw |-> TRUE, file |-> fileNow, config |-> config]

\* ConfigManager.addPolyfill: the push changes the cached list in place
addPolyfill(cached, fileNow, envNow, featureName, writeOk) ==
    LET config == loadConfig(cached, fileNow, envNow)
        pushed == [config EXCEPT !.polyfills = Append(@, featureName)]
    IN  IF ~isFeaturePolyfilled(config, featureName)
        THEN updateConfig(pushed, fileNow, envNow,
                          [polyfills |-> pushed.polyfills], writeOk)
        ELSE [threw |-> FALSE, file |-> fileNow, config |-> config]

\* the list without its element at position index
RemoveAt(list, index) ==
    SubSeq(list, 1, index - 1) \o SubSeq(list, index + 1, Len(list))

\* ConfigManager.removePolyfill: the splice removes the first occurrence
removePolyfill(cached, fileNow, envNow, featureName, writeOk) ==
    LET config  == loadConfig(cached, fileNow, envNow)
        found   == {i \in 1..Len(config.polyfills) : config.polyfills[i] = featureName}
        index   == CHOOSE i \in found : \A j \in found : i <= j
        spliced == [config EXCEPT !.polyfills = RemoveAt(@, index)]
    IN  IF found # {}
        THEN updateConfig(spliced, fileNow, envNow,
                          [polyfills |-> spliced.polyfills], writeOk)
        ELSE [threw |-> FALSE, file |-> fileNow, config |-> config]

\* ConfigManager.setFeatureOverride: the assignment changes the cached map
setFeatureOverride(cached, fileNow, envNow, featureName, supportStatus, writeOk) ==
    LET config   == loadConfig(cached, fileNow, envNow)
        assigned == [config EXCEPT !.overrides =
                       Spread(@, (featureName :> supportStatus))]
    IN  updateConfig(assigned, fileNow, envNow,
                     [overrides |-> assigned.overrides], writeOk)

\* the template of ConfigManager.createConfigTemplate
configTemplate ==
    [defaultBaseline  |-> Token(chrome, v37),
     customTargets    |-> (Token(chrome, v57) :> [browser |-> chrome, version |-> v57]) @@
                          (Token(chrome, v60) :> [browser |-> chrome, version |-> v60]),
     polyfills        |-> <<"css-grid", "flexbox", "promises">>,
     overrides        |-> ("css-variables" :> "supported"),
     browserFallbacks |-> (chrome :> <<v37, <<"4", "0">>, <<"4", "5">>>>) @@
                          (firefox :> <<v78, <<"6", "8">>>>) @@
                          (safari :> <<v12, v11>>) @@ (ie :> <<v11>>) @@
                          (edge :> <<v18, <<"1", "6">>>>)]

----------------------------------------------------------------------------
(* Feature support resolver: CanIUseClient                                 *)

\* CanIUseClient.cacheExpiry, 24 hours in milliseconds
cacheExpiry == 24 * 60 * 60 * 1000

\* what a request to the service can end in: the feature's data, a response
\* that is not ok, an empty payload, a network error, a body that is no JSON
Responses == {"ok", "not-ok", "empty", "network-error", "parse-error"}

NoData == [hasStats |-> FALSE, stats |-> EmptyMap]

\* a failed request that yields empty data instead of throwing
getFeatureData_NoThrow(cacheNow, featureName, response) ==
    IF /\ featureName \in DOMAIN cacheNow
       /\ now - cacheNow[featureName].timestamp < cacheExpiry
    THEN [threw |-> FALSE, fetched |-> FALSE,
          data |-> cacheNow[featureName].data, cache |-> cacheNow]
    ELSE IF response = "ok"
         THEN [threw |-> FALSE, fetched |-> TRUE,
               data  |-> remote[featureName],
               cache |-> Spread(cacheNow,
                                (featureName :> [data      |-> remote[featureName],
                                                 timestamp |-> now]))]
         ELSE [threw |-> FALSE, fetched |-> TRUE, data |-> NoData, cache |-> cacheNow]

\* an entry that is exactly cacheExpiry old still served
getFeatureData_ExpiryInclusive(cacheNow, featureName, response) ==
    IF /\ featureName \in DOMAIN cacheNow
       /\ now - cacheNow[featureName].timestamp <= cacheExpiry
    THEN [threw |-> FALSE, fetched |-> FALSE,
          data |-> cacheNow[featureName].data, cache |-> cacheNow]
    ELSE IF response = "ok"
         THEN [threw |-> FALSE, fetched |-> TRUE,
               data  |-> remote[featureName],
               cache |-> Spread(cacheNow,
                                (featureName :> [data      |-> remote[featureName],
                                                 timestamp |-> now]))]
         ELSE [threw |-> TRUE, fetched |-> TRUE, data |-> NoData, cache |-> cacheNow]

\* CanIUseClient.getFeatureData: the cached data while the entry is younger
\* than cacheExpiry; else the request, whose data is cached and whose failure
\* is thrown
getFeatureData(cacheNow, featureName, response) ==
    IF /\ featureName \in DOMAIN cacheNow
       /\ now - cacheNow[featureName].timestamp < cacheExpiry
    THEN [threw |-> FALSE, fetched |-> FALSE,
          data |-> cacheNow[featureName].data, cache |-> cacheNow]
    ELSE IF response = "ok"
         THEN [threw |-> FALSE, fetched |-> TRUE,
               data  |-> remote[featureName],
               cache |-> Spread(cacheNow,
                                (featureName :> [data      |-> remote[featureName],
                                                 timestamp |-> now]))]
         ELSE [threw |-> TRUE, fetched |-> TRUE, data |-> NoData, cache |-> cacheNow]

\* a status table in which the code p counts as supported
getSupportStatus_PolyfillCodeSupported(supportValue) ==
    CASE supportValue = "y" -> [supported |-> TRUE,  type |-> "full",     description |-> "Full support"]
      [] supportValue = "a" -> [supported |-> TRUE,  type |-> "partial",  description |-> "Partial support"]
      [] supportValue = "n" -> [supported |-> FALSE, type |-> "none",     description |-> "No support"]
      [] supportValue = "d" -> [supported |-> FALSE, type |-> "disabled", description |-> "Disabled by default"]
      [] supportValue = "p" -> [supported |-> TRUE,  type |-> "polyfill", description |-> "Requires polyfill"]
      [] supportValue = "u" -> [supported |-> FALSE, type |-> "unknown",  description |-> "Support unknown"]
      [] OTHER -> [supported |-> FALSE, type |-> "unknown", description |-> "Unknown support status"]

\* CanIUseClient.getSupportStatus
getSupportStatus(supportValue) ==
    CASE supportValue = "y" -> [supported |-> TRUE,  type |-> "full",     description |-> "Full support"]
      [] supportValue = "a" -> [supported |-> TRUE,  type |-> "partial",  description |-> "Partial support"]
      [] supportValue = "n" -> [supported |-> FALSE, type |-> "none",     description |-> "No support"]
      [] supportValue = "d" -> [supported |-> FALSE, type |-> "disabled", description |-> "Disabled by default"]
      [] supportValue = "p" -> [supported |-> FALSE, type |-> "polyfill", description |-> "Requires polyfill"]
      [] supportValue = "u" -> [supported |-> FALSE, type |-> "unknown",  description |-> "Support unknown"]
      [] OTHER -> [supported |-> FALSE, type |-> "unknown", description |-> "Unknown support status"]

\* a decision without originalSupport
NoStatus == [supported |-> FALSE, type |-> "undefined", description |-> ""]

\* CanIUseClient.getFeatureSupportWithConfig on the loaded configuration:
\* the decision, whether the service was asked, and the cache afterwards
getFeatureSupportWithConfig(config, cacheNow, featureName, browser, version, response) ==
    Once(getFeatureData(cacheNow, featureName, response), LAMBDA got :
    Once(getBrowserSupport(got.data, browser, version, config), LAMBDA supportValue :
    LET override == getFeatureOverride(config, featureName)
        status   == getSupportStatus(IF supportValue = NoCode THEN "n" ELSE supportValue)
    IN  IF override # ""
        THEN [decision |->
                [supported       |-> override = "supported",
                 type            |-> IF override = "supported" THEN "override"
                                     ELSE "override-disabled",
                 description     |-> IF override = "supported"
                                     THEN "Forced supported by configuration"
                                     ELSE "Forced unsupported by configuration",
                 source          |-> "config-override",
                 originalSupport |-> NoStatus,
                 rawValue        |-> NoCode],
              fetched |-> FALSE, cache |-> cacheNow]
        ELSE IF got.threw
        THEN [decision |->
                [supported       |-> FALSE,
                 type            |-> "error",
                 description     |-> "Error checking support",
                 source          |-> "error",
                 originalSupport |-> NoStatus,
                 rawValue        |-> NoCode],
              fetched |-> got.fetched, cache |-> got.cache]
        ELSE IF isFeaturePolyfilled(config, featureName) /\ ~status.supported
        THEN [decision |->
                [supported       |-> TRUE,
                 type            |-> "polyfilled",
                 description     |-> "Supported via polyfill",
                 source          |-> "polyfill",
                 originalSupport |-> status,
                 rawValue        |-> supportValue],
              fetched |-> got.fetched, cache |-> got.cache]
        ELSE [decision |->
                [supported       |-> status.supported,
                 type            |-> status.type,
                 description     |-> status.description,
                 source          |-> "caniuse-data",
                 originalSupport |-> NoStatus,
                 rawValue        |-> supportValue],
              fetched |-> got.fetched, cache |-> got.cache]))

\* CanIUseClient.checkFeatureSupportForTarget: a target that does not
\* resolve throws before the resolver's try block is entered
checkFeatureSupportForTarget(config, cacheNow, featureName, targetString, response) ==
    Once(resolveTargetVersion(config, targetString), LAMBDA targetConfig :
      IF targetConfig.threw
      THEN [threw |-> TRUE, fetched |-> FALSE, cache |-> cacheNow]
      ELSE [threw |-> FALSE] @@
           getFeatureSupportWithConfig(config, cacheNow, featureName,
                                       targetConfig.browser, targetConfig.version,
                                       response))

----------------------------------------------------------------------------
(* Aggregator: EnhancedCompatibilityChecker                                *)

\* a list of feature identifiers; a string passed in its place is a sequence
\* of characters and has no map method
IsArray(features) == \A i \in 1..Len(features) : features[i] \notin Char

\* the quotient truncated instead of rounded
Round_Floor(num, den) == num \div den

\* Math.round(num / den) for num >= 0, den > 0
Round(num, den) == (2 * num + den) \div (2 * den)

\* one callback of features.map in _checkFeaturesForTarget
FeatureResult(config, cacheNow, feature, targetString, response) ==
    Once(checkFeatureSupportForTarget(config, cacheNow, feature, targetString, response),
         LAMBDA r :
           IF r.threw
           THEN [feature |-> feature, supported |-> FALSE, status |-> "error",
                 description |-> "Could not check feature", source |-> "error",
                 rawValue |-> NoCode, originalSupport |-> NoStatus, error |-> TRUE]
           ELSE [feature |-> feature, supported |-> r.decision.supported,
                 status |-> r.decision.type, description |-> r.decision.description,
                 source |-> r.decision.source, rawValue |-> r.decision.rawValue,
                 originalSupport |-> r.decision.originalSupport, error |-> FALSE])

\* the cache after the callbacks of one target: the callbacks all read the
\* cache before any request completes, and every request that succeeds
\* stores the service's data
RECURSIVE CacheAfter(_, _, _, _, _, _)
CacheAfter(config, cacheNow, features, targetString, responses, i) ==
    IF i > Len(features) THEN cacheNow
    ELSE Once(CacheAfter(config, cacheNow, features, targetString, responses, i + 1),
              LAMBDA rest :
                Spread(rest,
                       checkFeatureSupportForTarget(config, cacheNow, features[i],
                                                    targetString, responses[i]).cache))

FeaturesOf(results) == [i \in 1..Len(results) |-> results[i].feature]

\* the tally of _checkFeaturesForTarget over the results of its callbacks
TargetResult(results) ==
    LET IsSupported(r)   == r.supported /\ ~r.error
        IsUnsupported(r) == ~r.supported /\ ~r.error
        IsError(r)       == r.error
        IsPolyfilled(r)  == r.source = "polyfill"
        IsOverridden(r)  == r.source = "config-override"
        supported   == SelectSeq(results, IsSupported)
        unsupported == SelectSeq(results, IsUnsupported)
        errors      == SelectSeq(results, IsError)
        polyfilled  == SelectSeq(results, IsPolyfilled)
        overridden  == SelectSeq(results, IsOverridden)
    IN  [total               |-> Len(results),
         supported           |-> Len(supported),
         unsupported         |-> Len(unsupported),
         errors              |-> Len(errors),
         polyfilled          |-> Len(polyfilled),
         overridden          |-> Len(overridden),
         supportedFeatures   |-> FeaturesOf(supported),
         unsupportedFeatures |-> FeaturesOf(unsupported),
         errorFeatures       |-> FeaturesOf(errors),
         polyfilledFeatures  |-> FeaturesOf(polyfilled),
         overriddenFeatures  |-> FeaturesOf(overridden),
         details             |-> results]

\* EnhancedCompatibilityChecker._checkFeaturesForTarget
checkFeaturesForTarget(config, cacheNow, features, targetString, responses) ==
    IF ~IsArray(features)
    THEN [threw |-> TRUE, cache |-> cacheNow, value |-> EmptyMap]
    ELSE
      Once([i \in 1..Len(features) |->
              FeatureResult(config, cacheNow, features[i], targetString, responses[i])],
           LAMBDA results :
             [threw |-> FALSE,
              cache |-> CacheAfter(config, cacheNow, features, targetString, responses, 1),
              value |-> TargetResult(results)])

\* the forEach over result.unsupportedFeatures: a feature already among the
\* critical issues gets the target pushed, a new one is appended
RECURSIVE TrackIssues(_, _, _, _)
TrackIssues(criticalIssues, unsupportedFeatures, target, i) ==
    IF i > Len(unsupportedFeatures) THEN criticalIssues
    ELSE
      LET feature == unsupportedFeatures[i]
          found   == {k \in 1..Len(criticalIssues) : criticalIssues[k].feature = feature}
          first   == CHOOSE k \in found : \A k2 \in found : k <= k2
          next    == IF found # {}
                     THEN [criticalIssues EXCEPT ![first].targets = Append(@, target)]
                     ELSE Append(criticalIssues, [feature |-> feature, targets |-> <<target>>])
      IN  Once(next, LAMBDA issues :
                 TrackIssues(issues, unsupportedFeatures, target, i + 1))

\* the loop over targets of _generateCompatibilitySummary, from target i on;
\* acc holds summary.targets, totalSupported, totalFeatures, criticalIssues
RECURSIVE SummaryLoop(_, _, _, _)
SummaryLoop(compatibilityResults, targets, i, acc) ==
    IF i > Len(targets) \/ acc.threw THEN acc
    ELSE IF targets[i] \notin DOMAIN compatibilityResults
    THEN SummaryLoop(compatibilityResults, targets, i + 1, acc)
    ELSE
      LET r     == compatibilityResults[targets[i]]
          score == IF "total" \in DOMAIN r /\ r.total > 0
                   THEN Round(100 * r.supported, r.total) ELSE 100
      IN  IF "unsupportedFeatures" \notin DOMAIN r
          THEN [acc EXCEPT !.threw = TRUE]
          ELSE Once(
                 [threw          |-> FALSE,
                  targets        |-> Spread(acc.targets,
                                       (targets[i] :>
                                          [score       |-> score,
                                           supported   |-> r.supported,
                                           unsupported |-> r.unsupported,
                                           issues      |-> r.unsupportedFeatures])),
                  totalSupported |-> acc.totalSupported + r.supported,
                  totalFeatures  |-> acc.totalFeatures + r.total,
                  criticalIssues |-> TrackIssues(acc.criticalIssues,
                                                 r.unsupportedFeatures, targets[i], 1)],
                 LAMBDA next : SummaryLoop(compatibilityResults, targets, i + 1, next))

\* the overall score dividing by the sum of the totals only
overallScore_PerTotal(totalSupported, totalFeatures, n) ==
    IF totalFeatures > 0 THEN Round(100 * totalSupported, totalFeatures) ELSE 100

\* summary.overallScore: Math.round((totalSupported / totalFeatures /
\* targets.length) * 100), and 100 when no feature was counted
overallScore(totalSupported, totalFeatures, n) ==
    IF totalFeatures > 0
    THEN Round(100 * totalSupported, totalFeatures * n)
    ELSE 100

\* EnhancedCompatibilityChecker._generateCompatibilitySummary; it throws a
\* TypeError on a result without unsupportedFeatures
generateCompatibilitySummary(compatibilityResults, targets) ==
    Once(SummaryLoop(compatibilityResults, targets, 1,
                     [threw |-> FALSE, targets |-> EmptyMap, totalSupported |-> 0,
                      totalFeatures |-> 0, criticalIssues |-> <<>>]),
         LAMBDA acc :
    LET InAll(issue) == Len(issue.targets) = Len(targets)
        common == SelectSeq(acc.criticalIssues, InAll)
    IN  IF acc.threw THEN [threw |-> TRUE]
        ELSE [threw             |-> FALSE,
              overallScore      |-> overallScore(acc.totalSupported,
                                                 acc.totalFeatures, Len(targets)),
              targets           |-> acc.targets,
              criticalIssues    |-> acc.criticalIssues,
              commonUnsupported |-> [k \in 1..Len(common) |-> common[k].feature]])

\* the loop over targets of checkSpecificFeatures, from target i on
RECURSIVE SpecificLoop(_, _, _, _, _, _, _)
SpecificLoop(clientConfig, cacheNow, features, targets, responses, i, results) ==
    IF i > Len(targets) THEN [cache |-> cacheNow, results |-> results]
    ELSE
      Once(checkFeaturesForTarget(clientConfig, cacheNow, features,
                                  targets[i], responses[i]),
           LAMBDA r :
      LET entry == IF r.threw
                   THEN [error       |-> TRUE,
                         message     |-> "features.map is not a function",
                         total       |-> Len(features),
                         supported   |-> 0,
                         unsupported |-> Len(features),
                         errors      |-> Len(features)]
                   ELSE r.value
      IN  Once(Spread(results, (targets[i] :> entry)), LAMBDA next :
                 SpecificLoop(clientConfig, r.cache, features, targets, responses,
                              i + 1, next)))

\* EnhancedCompatibilityChecker.checkSpecificFeatures
checkSpecificFeatures(checkerConfig, clientConfig, cacheNow, features, options, responses) ==
    LET targets == Field(options, "targets", <<checkerConfig.defaultBaseline>>)
    IN  Once(SpecificLoop(clientConfig, cacheNow, features, targets,
                          responses, 1, EmptyMap),
             LAMBDA loop :
        Once(generateCompatibilitySummary(loop.results, targets),
             LAMBDA summary :
               [threw |-> summary.threw,
                cache |-> loop.cache,
                value |-> [features      |-> features,
                           compatibility |-> loop.results,
                           summary       |-> summary]]))

\* the loop over targets of checkProjectCompatibility, from target i on
RECURSIVE ProjectLoop(_, _, _, _, _, _, _, _)
ProjectLoop(checkerConfig, clientConfig, cacheNow, features, targets, responses, i, results) ==
    IF i > Len(targets) THEN [cache |-> cacheNow, results |-> results]
    ELSE
      Once(checkFeaturesForTarget(clientConfig, cacheNow, features,
                                  targets[i], responses[i]),
           LAMBDA r :
      Once(resolveTargetVersion(checkerConfig, targets[i]),
           LAMBDA browserConfig :
      LET entry == IF r.threw \/ browserConfig.threw
                   THEN [error       |-> TRUE,
                         message     |-> "targetString.match is not a function",
                         browserInfo |-> [browser |-> <<"u", "n", "k", "n", "o", "w", "n">>,
                                          version |-> <<"u", "n", "k", "n", "o", "w", "n">>]]
                   ELSE r.value @@
                        [browserInfo |-> [browser |-> browserConfig.browser,
                                          version |-> browserConfig.version]]
      IN  Once(Spread(results, (targets[i] :> entry)), LAMBDA next :
                 ProjectLoop(checkerConfig, clientConfig, r.cache, features, targets,
                             responses, i + 1, next))))

\* EnhancedCompatibilityChecker.checkProjectCompatibility, given the
\* featuresArray of the scan
checkProjectCompatibility(checkerConfig, clientConfig, cacheNow, featuresArray, options, responses) ==
    LET targets == Field(options, "targets", <<checkerConfig.defaultBaseline>>)
    IN  IF Len(featuresArray) = 0
        THEN [threw |-> FALSE, cache |-> cacheNow,
              value |-> [status |-> "no-features-detected"]]
        ELSE Once(ProjectLoop(checkerConfig, clientConfig, cacheNow, featuresArray,
                              targets, responses, 1, EmptyMap),
                  LAMBDA loop :
             Once(generateCompatibilitySummary(loop.results, targets),
                  LAMBDA summary :
                    [threw |-> summary.threw,
                     cache |-> loop.cache,
                     value |-> [features      |-> featuresArray,
                                compatibility |-> loop.results,
                                summary       |-> summary]]))

----------------------------------------------------------------------------
(* Tool handlers: enhanced-tools.js                                        *)

\* [...new Set(list)]: the first occurrence of each element, in order
RECURSIVE Dedupe(_)
Dedupe(list) ==
    IF list = <<>> THEN <<>>
    ELSE LET init == Dedupe(SubSeq(list, 1, Len(list) - 1))
             x    == list[Len(list)]
         IN  IF \E i \in 1..Len(init) : init[i] = x THEN init ELSE Append(init, x)

\* what handleEnhancedTool returns when the handler throws
ToolError == [error |-> TRUE]

\* featuresToCheck of handleCheckCompatibility
FeaturesToCheck(args) ==
    IF "detected" \in DOMAIN args
    THEN Dedupe(Field(args, "features", <<>>) \o Dedupe(args.detected))
    ELSE Field(args, "features", <<>>)

\* handleCheckCompatibility; args.detected stands for args.files together
\* with the features scanSpecificFiles finds in them
handleCheckCompatibility(args, checkerConfig, clientConfig, cacheNow, responses) ==
    LET targets  == Field(args, "targets", <<Token(chrome, v37)>>)
        featuresToCheck == FeaturesToCheck(args)
    IN  IF Len(featuresToCheck) = 0
        THEN [cache |-> cacheNow, inner |-> [threw |-> FALSE, value |-> EmptyMap],
              output |-> [error |-> FALSE, status |-> "no-features"]]
        ELSE Once(checkSpecificFeatures(checkerConfig, clientConfig, cacheNow,
                                        featuresToCheck, [targets |-> targets], responses),
                  LAMBDA r :
             [cache  |-> r.cache,
              inner  |-> [threw |-> r.threw, value |-> r.value],
              output |-> IF r.threw THEN ToolError
                         ELSE [error    |-> FALSE,
                               features |-> featuresToCheck,
                               targets  |-> targets,
                               summary  |->
                                 [overallScore        |-> r.value.summary.overallScore,
                                  byTarget            |-> r.value.summary.targets,
                                  unsupportedFeatures |-> r.value.summary.commonUnsupported]]])

\* x || 100
OrHundred(x) == IF x = 0 THEN 100 ELSE x

\* handleScanProject, given the featuresArray the scan of projectPath yields
handleScanProject(args, featuresArray, checkerConfig, clientConfig, cacheNow, responses) ==
    LET targets == Field(args, "targets", <<Token(chrome, v37)>>)
    IN  Once(checkProjectCompatibility(checkerConfig, clientConfig, cacheNow,
                                       featuresArray, [targets |-> targets], responses),
             LAMBDA r :
        LET summarised == "summary" \in DOMAIN r.value
        IN
         [cache  |-> r.cache,
         inner  |-> [threw |-> r.threw, value |-> r.value],
         output |-> IF r.threw THEN ToolError
                    ELSE [error  |-> FALSE,
                          status |-> Field(r.value, "status", "completed"),
                          compatibility |->
                            [targets           |-> IF summarised
                                                   THEN DOMAIN r.value.compatibility
                                                   ELSE {},
                             overallScore      |-> IF summarised
                                                   THEN OrHundred(r.value.summary.overallScore)
                                                   ELSE 100,
                             criticalIssues    |-> IF summarised
                                                   THEN Len(r.value.summary.criticalIssues)
                                                   ELSE 0,
                             commonUnsupported |-> IF summarised
                                                   THEN r.value.summary.commonUnsupported
                                                   ELSE <<>>]]])

\* a failure that is reported as success
ConfigError_Success(action, cached, fileNow) ==
    [file |-> fileNow, config |-> cached,
     output |-> [action |-> action, error |-> FALSE, success |-> TRUE]]

\* the result of a configuration call that throws inside handleManageConfig
ConfigError(action, cached, fileNow) ==
    [file |-> fileNow, config |-> cached,
     output |-> [action |-> action, error |-> TRUE, success |-> FALSE]]

ConfigDone(action, r) ==
    [file |-> r.file, config |-> r.config,
     output |-> [action |-> action, error |-> r.threw, success |-> ~r.threw]]

\* handleManageConfig on the ConfigManager of enhanced-tools.js
handleManageConfig(args, cached, fileNow, envNow, writeOk) ==
    LET action     == Field(args, "action", "view")
        baseline   == Field(args, "baseline", NoString)
        polyfill   == Field(args, "polyfill", "")
        feature    == Field(args, "feature", "")
        override   == Field(args, "override", "")
        targetName == Field(args, "targetName", NoString)
        browser    == Field(args, "browser", NoString)
        version    == Field(args, "version", NoString)
        config     == loadConfig(cached, fileNow, envNow)
    IN  CASE action = "view" ->
               [file |-> fileNow, config |-> config,
                output |-> [action |-> action, error |-> FALSE, success |-> FALSE,
                            currentConfig |-> config,
                            availableTargets |-> DOMAIN getBrowserTargets(config)]]
          [] action = "set_baseline" ->
               IF ~Truthy(baseline) THEN ConfigError(action, cached, fileNow)
               ELSE ConfigDone(action,
                      updateConfig(cached, fileNow, envNow,
                                   [defaultBaseline |-> baseline], writeOk))
          [] action = "add_polyfill" ->
               IF polyfill = "" THEN ConfigError(action, cached, fileNow)
               ELSE ConfigDone(action,
                      addPolyfill(cached, fileNow, envNow, polyfill, writeOk))
          [] action = "remove_polyfill" ->
               IF polyfill = "" THEN ConfigError(action, cached, fileNow)
               ELSE ConfigDone(action,
                      removePolyfill(cached, fileNow, envNow, polyfill, writeOk))
          [] action = "set_override" ->
               IF feature = "" \/ override = "" THEN ConfigError(action, cached, fileNow)
               ELSE ConfigDone(action,
                      setFeatureOverride(cached, fileNow, envNow, feature, override, writeOk))
          [] action = "add_target" ->
               IF ~Truthy(targetName) \/ ~Truthy(browser) \/ ~Truthy(version)
               THEN ConfigError(action, cached, fileNow)
               ELSE ConfigDone(action,
                      updateConfig(config, fileNow, envNow,
                        [customTargets |->
                           Spread(config.customTargets,
                                  (targetName :> [browser |-> browser,
                                                  version |-> version]))],
                        writeOk))
          [] action = "create_template" ->
               IF writeOk
               THEN [file |-> FileWith(configTemplate), config |-> cached,
                     output |-> [action |-> action, error |-> FALSE, success |-> TRUE]]
               ELSE ConfigError(action, cached, fileNow)
          [] action = "reset" ->
               ConfigDone(action,
                 updateConfig(cached, fileNow, envNow,
                              [defaultBaseline |-> Token(chrome, v37),
                               customTargets   |-> EmptyMap,
                               polyfills       |-> <<>>,
                               overrides       |-> EmptyMap], writeOk))
          [] OTHER -> ConfigError(action, cached, fileNow)

----------------------------------------------------------------------------
(* The lookup on its own: every matrix entry of at most MaxKeys versions,  *)
(* every target version and every fallback list below.                     *)

MaxKeys == 3

LookupKeys == {v37, v57, v4x4, v4x4x3, latest}

LookupCodes == {"y", "n"}

LookupEntries ==
    UNION {{e \in [1..n -> LookupKeys \X LookupCodes] :
              \A i, j \in 1..n : e[i][1] = e[j][1] => i = j} : n \in 0..MaxKeys}

LookupVersions == {v37, v60, v4, v4x4x2, latest}

LookupFallbacks ==
    {EmptyMap, defaultConfig.browserFallbacks, (chrome :> <<v57, v37>>)}

LookupData ==
    {[hasStats |-> FALSE, stats |-> EmptyMap]}
    \cup {[hasStats |-> TRUE, stats |-> (chrome :> e)] : e \in LookupEntries}

InitLookup ==
    /\ file = NoFile
    /\ env = EmptyMap
    /\ cm = NotLoaded
    /\ cache = EmptyMap
    /\ remote = EmptyMap
    /\ now = 0
    /\ result = NoResult
    /\ input \in [featureData : LookupData,
                  browser     : {chrome, opera},
                  version     : LookupVersions,
                  config      : {[defaultConfig EXCEPT !.browserFallbacks = f] :
                                   f \in LookupFallbacks}]

CallGetBrowserSupport ==
    /\ result = NoResult
    /\ result' = [op    |-> "getBrowserSupport",
                  value |-> getBrowserSupport(input.featureData, input.browser,
                                              input.version, input.config)]
    /\ UNCHANGED <<file, env, cm, cache, remote, now, input>>

NextLookup == CallGetBrowserSupport

SpecLookup == InitLookup /\ [][NextLookup]_vars

\* what the claims about the lookup speak of, read off the arguments
LookupDone == result.op = "getBrowserSupport"

LookupHasEntry ==
    input.featureData.hasStats /\ input.browser \in DOMAIN input.featureData.stats

LookupEntry == input.featureData.stats[input.browser]

LookupFallbackList ==
    IF input.browser \in DOMAIN input.config.browserFallbacks
    THEN input.config.browserFallbacks[input.browser] ELSE <<>>

ExactMissing == LookupHasEntry /\ ~Has(LookupEntry, input.version)

FallbackPresent ==
    \E i \in 1..Len(LookupFallbackList) : Has(LookupEntry, LookupFallbackList[i])

\* the numeric keys of the entry that are <= the target version
KeysAtMost ==
    {k \in {LookupEntry[i][1] : i \in 1..Len(LookupEntry)} :
        /\ ~isNaN(parseFloat(k))
        /\ ~isNaN(parseFloat(input.version))
        /\ NumLeq(parseFloat(k), parseFloat(input.version))}

NumericKeys ==
    {k \in {LookupEntry[i][1] : i \in 1..Len(LookupEntry)} : ~isNaN(parseFloat(k))}

\* C4: when the exact version is missing and some configured fallback
\* version is in the matrix, getBrowserSupport returns the code of the first
\* such fallback version in configured order, and never null.
C4_FirstPresentFallback ==
    (LookupDone /\ ExactMissing /\ FallbackPresent) =>
        LET fb == LookupFallbackList
            i  == CHOOSE i \in 1..Len(fb) :
                    /\ Has(LookupEntry, fb[i])
                    /\ \A j \in 1..(i - 1) : ~Has(LookupEntry, fb[j])
        IN  /\ result.value = Get(LookupEntry, fb[i])
            /\ result.value # NoCode

\* the first configured fallback is missing and a later one decides
C4_Witness ==
    /\ LookupDone /\ ExactMissing
    /\ Len(LookupFallbackList) > 1
    /\ ~Has(LookupEntry, LookupFallbackList[1])
    /\ Has(LookupEntry, LookupFallbackList[2])
    /\ result.value = Get(LookupEntry, LookupFallbackList[2])

\* C5: in the closest-version step (exact and fallback versions missing,
\* numeric target), when some numeric key is <= the target the code returned
\* is that of a greatest such key; the key selected is never above the target.
C5_ClosestNotAboveTarget ==
    (LookupDone /\ ExactMissing /\ ~FallbackPresent /\ KeysAtMost # {}) =>
        \E k \in KeysAtMost :
            /\ \A k2 \in KeysAtMost : NumLeq(parseFloat(k2), parseFloat(k))
            /\ result.value = Get(LookupEntry, k)

\* a key above the target with another code is in the matrix, and a lower
\* key below the selected one as well
C5_Witness ==
    /\ LookupDone /\ ExactMissing /\ ~FallbackPresent
    /\ Cardinality(KeysAtMost) > 1
    /\ \E k \in NumericKeys \ KeysAtMost : Get(LookupEntry, k) # result.value
    /\ \E k \in KeysAtMost : Get(LookupEntry, k) # result.value

\* C6: when exact and fallback versions are missing and the target is not
\* numeric or no numeric key is <= the target, getBrowserSupport returns the
\* code of a lowest numeric key; it returns null only when the browser has
\* no entry or no numeric key.
C6_LowestVersionFallback ==
    LookupDone =>
        /\ (ExactMissing /\ ~FallbackPresent /\ KeysAtMost = {} /\ NumericKeys # {}) =>
              \E k \in NumericKeys :
                  /\ \A k2 \in NumericKeys : NumLeq(parseFloat(k), parseFloat(k2))
                  /\ result.value = Get(LookupEntry, k)
        /\ (result.value = NoCode) <=>
              (~LookupHasEntry \/ (ExactMissing /\ ~FallbackPresent /\ NumericKeys = {}))

\* the lowest key decides, and a higher key holds another code
C6_Witness ==
    /\ LookupDone /\ ExactMissing /\ ~FallbackPresent
    /\ KeysAtMost = {} /\ Cardinality(NumericKeys) > 1
    /\ \E k \in NumericKeys : Get(LookupEntry, k) # result.value

----------------------------------------------------------------------------
(* Target resolution on its own: every configuration and token below.      *)

TargetCustoms ==
    {EmptyMap,
     (Token(chrome, v57) :> [browser |-> chrome, version |-> v57]),
     (Token(chrome, v37) :> [browser |-> chrome, version |-> v60]),
     (mobile :> [browser |-> safari, version |-> v12])}

TargetBaselines ==
    {Token(chrome, v37), Token(chrome, v57), Token(firefox, esr), mobile,
     <<"C", "h", "r", "o", "m", "e">>}

TargetTokens ==
    {Token(chrome, v37), Token(chrome, v57), Token(chrome, latest),
     Token(firefox, esr), Token(opera, v4x4x3), mobile,
     Token(firefox, Token(esr, v78)),
     <<"C", "h", "r", "o", "m", "e", "-", "5", "7">>,
     chrome, chrome \o hyphen, hyphen \o v57, v57, NoString,
     <<"i", "e", "1", "1", "-", "1", "1">>, number37}

InitTarget ==
    /\ file = NoFile
    /\ env = EmptyMap
    /\ cm = NotLoaded
    /\ cache = EmptyMap
    /\ remote = EmptyMap
    /\ now = 0
    /\ result = NoResult
    /\ input \in [targetString : TargetTokens,
                  config       : {[defaultConfig EXCEPT !.customTargets = c,
                                                        !.defaultBaseline = b] :
                                    c \in TargetCustoms, b \in TargetBaselines}]

CallResolveTargetVersion ==
    /\ result = NoResult
    /\ result' = [op    |-> "resolveTargetVersion",
                  value |-> resolveTargetVersion(input.config, input.targetString)]
    /\ UNCHANGED <<file, env, cm, cache, remote, now, input>>

NextTarget == CallResolveTargetVersion

SpecTarget == InitTarget /\ [][NextTarget]_vars

TargetDone == result.op = "resolveTargetVersion"

\* the token is a string that is no key of the target table and has not the
\* form <browser>-<version>
TokenUnresolvable(config, token) ==
    /\ IsString(token)
    /\ token \notin DOMAIN getBrowserTargets(config)
    /\ ~MatchBrowserVersion(token).matched

\* C10: for a token that matches neither the target table nor the pattern,
\* resolveTargetVersion returns what resolving the default baseline token
\* itself yields (by the table, else by the pattern), and {chrome, "37"} only
\* when the baseline cannot be resolved; for every string token it returns a
\* pair and does not fail.
C10_BaselineResolution ==
    (TargetDone /\ IsString(input.targetString)) =>
        /\ ~result.value.threw
        /\ TokenUnresolvable(input.config, input.targetString) =>
             LET baseline == input.config.defaultBaseline
                 targets  == getBrowserTargets(input.config)
             IN  result.value =
                   IF baseline \in DOMAIN targets THEN Returned(targets[baseline])
                   ELSE IF MatchBrowserVersion(baseline).matched
                        THEN Returned(MatchBrowserVersion(baseline))
                        ELSE Returned([browser |-> chrome, version |-> v37])

\* the token is lower-case letters, a hyphen at position n (its first) and
\* a rest that is not empty
HasFormAt(token, n) ==
    /\ 1 < n /\ n < Len(token)
    /\ token[n] = "-"
    /\ \A k \in 1..(n - 1) : token[k] \in LowerCase

----------------------------------------------------------------------------
(* The resolver of one client: every configuration, cache and service      *)
(* content below, one call of getFeatureSupportWithConfig.                 *)

Features == {"css-grid", "flexbox"}

ResolveOverrides ==
    UNION {[D -> {"supported", "unsupported"}] : D \in SUBSET Features}

ResolveFiles ==
    {NoFile} \cup
    {FileWith([polyfills |-> p, overrides |-> o]) :
        p \in {<<>>, <<"css-grid">>, <<"flexbox", "css-grid">>}, o \in ResolveOverrides}

\* what the service holds for a feature: chrome 37 with each code, chrome
\* without version 37, no chrome at all, no stats
ResolveData ==
    {[hasStats |-> TRUE, stats |-> (chrome :> <<<<v37, c>>>>)] : c \in Codes}
    \cup {[hasStats |-> TRUE, stats |-> (chrome :> <<<<v57, "y">>, <<v60, "n">>>>)],
          [hasStats |-> TRUE, stats |-> (firefox :> <<<<v78, "y">>>>)],
          NoData}

Hour == 60 * 60 * 1000

InitResolve ==
    /\ env = EmptyMap
    /\ file \in ResolveFiles
    /\ cm \in {[NotLoaded EXCEPT !["client"] = c] :
                 c \in {Null, loadConfig(Null, file, env), loadConfig(Null, NoFile, env)}}
    /\ remote \in {[f \in Features |-> d] : d \in ResolveData}
    /\ now = 30 * Hour
    /\ cache \in {EmptyMap} \cup
                 {("css-grid" :> [data |-> d, timestamp |-> t * Hour]) :
                     d \in {remote["css-grid"]}, t \in {0, 20}}
    /\ input = EmptyMap
    /\ result = NoResult

\* client.getFeatureSupportWithConfig(featureName, browser, version)
CallGetFeatureSupportWithConfig ==
    /\ result = NoResult
    /\ \E featureName \in Features, browser \in {chrome, opera},
          version \in {v37, v57}, response \in Responses :
          LET config == loadConfig(cm["client"], file, env)
              r == getFeatureSupportWithConfig(config, cache, featureName,
                                               browser, version, response)
          IN  /\ input' = [featureName |-> featureName, browser |-> browser,
                           version |-> version, response |-> response,
                           cache |-> cache]
              /\ cm' = [cm EXCEPT !["client"] = config]
              /\ cache' = r.cache
              /\ result' = [op |-> "getFeatureSupportWithConfig",
                            decision |-> r.decision, fetched |-> r.fetched]
    /\ UNCHANGED <<file, env, remote, now>>

NextResolve == CallGetFeatureSupportWithConfig

SpecResolve == InitResolve /\ [][NextResolve]_vars

ResolveDone == result.op = "getFeatureSupportWithConfig"

\* the configuration the client resolved with
ClientConfig == cm["client"]

\* C1: a feature with an override in the client's effective configuration
\* gets the override's status (override / override-disabled, provenance
\* config-override) for every browser, version and matrix, also when the
\* request would fail, and the service is not asked nor the cache touched.
C1_OverridePrecedence ==
    (ResolveDone /\ input.featureName \in DOMAIN ClientConfig.overrides) =>
        LET o == ClientConfig.overrides[input.featureName]
        IN  /\ result.decision.supported = (o = "supported")
            /\ result.decision.type =
                 (IF o = "supported" THEN "override" ELSE "override-disabled")
            /\ result.decision.source = "config-override"
            /\ ~result.fetched
            /\ cache = input.cache

\* an override to unsupported wins over a matrix that says supported, with
\* a request that would have failed and nothing cached
C1_Witness ==
    /\ ResolveDone
    /\ input.featureName \in DOMAIN ClientConfig.overrides
    /\ ClientConfig.overrides[input.featureName] = "unsupported"
    /\ input.response = "network-error"
    /\ input.featureName \notin DOMAIN input.cache
    /\ remote[input.featureName].hasStats
    /\ getBrowserSupport(remote[input.featureName], input.browser,
                         input.version, ClientConfig) = "y"
    /\ result.decision.type = "override-disabled"

\* the feature of the call is in the polyfill list of the configuration
InPolyfills ==
    input.featureName \in
        {ClientConfig.polyfills[i] : i \in 1..Len(ClientConfig.polyfills)}

\* the code the matrix gives for the target, null when it gives none
RawCode ==
    getBrowserSupport(remote[input.featureName], input.browser,
                      input.version, ClientConfig)

\* C3: for a polyfilled feature without override whose matrix was obtained,
\* an unsupported raw status (none, disabled, needs-polyfill, unknown,
\* unmapped, absent) is upgraded to supported / polyfilled / provenance
\* polyfill with originalSupport the unsupported raw decision; a supported
\* raw status is kept with provenance caniuse-data.
C3_PolyfillUpgrade ==
    (/\ ResolveDone
     /\ input.featureName \notin DOMAIN ClientConfig.overrides
     /\ InPolyfills
     /\ ~(result.fetched /\ input.response # "ok")) =>
        IF RawCode \in {"y", "a"}
        THEN /\ result.decision.supported
             /\ result.decision.type = (IF RawCode = "y" THEN "full" ELSE "partial")
             /\ result.decision.source = "caniuse-data"
             /\ result.decision.originalSupport = NoStatus
        ELSE /\ result.decision.supported
             /\ result.decision.type = "polyfilled"
             /\ result.decision.source = "polyfill"
             /\ ~result.decision.originalSupport.supported
             /\ result.decision.originalSupport.type =
                  (CASE RawCode \in {"n", NoCode} -> "none"
                     [] RawCode = "d" -> "disabled"
                     [] RawCode = "p" -> "polyfill"
                     [] OTHER -> "unknown")

\* a polyfilled feature, second in the polyfill list, with an unmapped code
C3_Witness ==
    /\ ResolveDone
    /\ input.featureName \notin DOMAIN ClientConfig.overrides
    /\ Len(ClientConfig.polyfills) > 1
    /\ ClientConfig.polyfills[2] = input.featureName
    /\ RawCode = "y x"
    /\ result.decision.type = "polyfilled"
    /\ result.decision.originalSupport.type = "unknown"

\* C7: when the request for the matrix fails, the call returns the decision
\* error / unsupported / provenance error, also for a polyfilled feature.
C7_FetchFailureIsErrorDecision ==
    (ResolveDone /\ result.fetched /\ input.response # "ok") =>
        /\ result.decision.type = "error"
        /\ ~result.decision.supported
        /\ result.decision.source = "error"

\* a polyfilled feature whose request returns an empty payload
C7_Witness ==
    /\ ResolveDone /\ result.fetched /\ input.response = "empty"
    /\ InPolyfills
    /\ result.decision.type = "error"

----------------------------------------------------------------------------
(* The server process: the three tools called in any order.                *)

\* at most this many requests to the service fail during one tool call
MaxFailures == 1

FailCount(responses) ==
    Cardinality({p \in (DOMAIN responses) \X (1..Len(responses[1])) :
                    responses[p[1]][p[2]] # "ok"})

\* the outcomes of the requests of one call: target i, feature j
ResponseSets(nTargets, nFeatures) ==
    IF nTargets = 0 THEN {<<>>}
    ELSE {r \in [1..nTargets -> [1..nFeatures -> {"ok", "network-error"}]] :
            FailCount(r) <= MaxFailures}

\* the tool check_compatibility with arguments from argSet
CheckCompatibility(argSet) ==
    \E args \in argSet :
      \E features \in {FeaturesToCheck(args)},
         targets \in {Field(args, "targets", <<Token(chrome, v37)>>)},
         checkerConfig \in {loadConfig(cm["checker"], file, env)},
         clientConfig \in {loadConfig(cm["client"], file, env)} :
          \E responses \in ResponseSets(Len(targets), Len(features)) :
            \E r \in {handleCheckCompatibility(args, checkerConfig, clientConfig,
                                              cache, responses)} :
                /\ input' = [tool |-> "check_compatibility", args |-> args]
                /\ result' = [op |-> "check_compatibility",
                              inner |-> r.inner, output |-> r.output]
                /\ cache' = r.cache
                /\ cm' = [cm EXCEPT
                            !["checker"] = checkerConfig,
                            !["client"] = IF IsArray(features) /\ Len(features) > 0
                                             /\ Len(targets) > 0
                                          THEN clientConfig ELSE @]
                /\ UNCHANGED <<file, env, remote, now>>

\* the tool scan_project with arguments from argSet, the scan of the project
\* directory yielding one of featureArrays
ScanProject(argSet, featureArrays) ==
    \E args \in argSet, featuresArray \in featureArrays :
      \E targets \in {Field(args, "targets", <<Token(chrome, v37)>>)},
         checkerConfig \in {loadConfig(cm["checker"], file, env)},
         clientConfig \in {loadConfig(cm["client"], file, env)} :
          \E responses \in ResponseSets(Len(targets), Len(featuresArray)) :
            \E r \in {handleScanProject(args, featuresArray, checkerConfig,
                                       clientConfig, cache, responses)} :
                /\ input' = [tool |-> "scan_project", args |-> args,
                             featuresArray |-> featuresArray]
                /\ result' = [op |-> "scan_project",
                              inner |-> r.inner, output |-> r.output]
                /\ cache' = r.cache
                /\ cm' = [cm EXCEPT
                            !["checker"] = checkerConfig,
                            !["client"] = IF Len(featuresArray) > 0 /\ Len(targets) > 0
                                          THEN clientConfig ELSE @]
                /\ UNCHANGED <<file, env, remote, now>>

\* the tool manage_config with arguments from argSet; the write of the
\* configuration file succeeds or fails
ManageConfig(argSet) ==
    \E args \in argSet, writeOk \in BOOLEAN :
      \E r \in {handleManageConfig(args, cm["tools"], file, env, writeOk)} :
          /\ input' = [tool |-> "manage_config", args |-> args]
          /\ result' = [op |-> "manage_config", output |-> r.output]
          /\ file' = r.file
          /\ cm' = [cm EXCEPT !["tools"] = r.config]
          /\ UNCHANGED <<env, cache, remote, now>>

mixedData == [hasStats |-> TRUE, stats |-> (chrome :> <<<<v37, "n">>, <<v57, "y">>>>)]
fullData  == [hasStats |-> TRUE, stats |-> (chrome :> <<<<v37, "y">>, <<v57, "y">>>>)]
noneData  == [hasStats |-> TRUE, stats |-> (chrome :> <<<<v37, "n">>, <<v57, "n">>>>)]

CheckArgs ==
    {[features |-> <<"css-grid">>],
     [features |-> <<"css-grid", "flexbox">>,
      targets  |-> <<Token(chrome, v37), Token(chrome, v57)>>],
     EmptyMap}

ScanArgs == {EmptyMap, [targets |-> <<Token(chrome, v57)>>]}

ScanArrays == {<<>>, <<"css-grid">>}

ConfigArgs ==
    {EmptyMap,
     [action |-> "set_baseline", baseline |-> Token(chrome, v57)],
     [action |-> "add_polyfill", polyfill |-> "css-grid"],
     [action |-> "set_override", feature |-> "css-grid", override |-> "supported"],
     [action |-> "set_override", feature |-> "css-grid"]}

Init ==
    /\ file = NoFile
    /\ env = EmptyMap
    /\ cm = NotLoaded
    /\ cache = EmptyMap
    /\ remote = ("css-grid" :> mixedData) @@ ("flexbox" :> fullData)
    /\ now = 0
    /\ input = EmptyMap
    /\ result = NoResult

Next ==
    \/ CheckCompatibility(CheckArgs)
    \/ ScanProject(ScanArgs, ScanArrays)
    \/ ManageConfig(ConfigArgs)

Spec == Init /\ [][Next]_vars

\* the details of a tool result that are about the feature
DetailsOf(res, feature) ==
    IF res.inner.threw \/ "compatibility" \notin DOMAIN res.inner.value THEN {}
    ELSE LET compat == res.inner.value.compatibility
         IN  UNION {{compat[t].details[k] :
                       k \in {k \in 1..Len(compat[t].details) :
                                compat[t].details[k].feature = feature}} :
                    t \in {t \in DOMAIN compat : "details" \in DOMAIN compat[t]}}

\* C2: when manage_config set_override(f, supported) or add_polyfill(f) has
\* returned success, the next check_compatibility or scan_project call
\* reports f as supported for every target (a request to the service that
\* fails is left aside), whatever calls came before.
C2_MutationVisibleToChecks ==
    [][(/\ result.op = "manage_config"
        /\ result.output.success
        /\ \/ /\ input.args.action = "set_override"
              /\ input.args.override = "supported"
           \/ input.args.action = "add_polyfill"
        /\ result'.op \in {"check_compatibility", "scan_project"})
       => \A d \in DetailsOf(result', Field(input.args, "feature",
                                            Field(input.args, "polyfill", ""))) :
            d.supported \/ d.status = "error"]_vars

----------------------------------------------------------------------------
(* The aggregator: one tool call with every feature list of at most        *)
(* MaxFeatures entries and every target list of at most MaxTargets tokens. *)

MaxFeatures == 2

MaxTargets == 2

\* the lists of at most n elements of S, of at least m
ListsUpTo(S, m, n) == UNION {[1..k -> S] : k \in m..n}

\* the string "flexbox" passed as the feature list
flexboxString == <<"f", "l", "e", "x", "b", "o", "x">>

AggTargetLists ==
    ListsUpTo({Token(chrome, v37), Token(chrome, v57), number37}, 1, MaxTargets)

AggCheckArgs ==
    {[features |-> f, targets |-> t] :
        f \in ListsUpTo(Features, 0, MaxFeatures) \cup {flexboxString},
        t \in AggTargetLists}

AggScanArgs == {[targets |-> t] : t \in AggTargetLists}

\* the scan yields each detected feature once
AggScanArrays ==
    {f \in ListsUpTo(Features, 0, MaxFeatures) :
        \A i, j \in 1..Len(f) : f[i] = f[j] => i = j}

InitAgg ==
    /\ file = NoFile
    /\ env = EmptyMap
    /\ cm = NotLoaded
    /\ cache = EmptyMap
    /\ remote \in {("css-grid" :> mixedData) @@ ("flexbox" :> fullData),
                   ("css-grid" :> noneData) @@ ("flexbox" :> mixedData)}
    /\ now = 0
    /\ input = EmptyMap
    /\ result = NoResult

NextAgg ==
    \/ result = NoResult /\ CheckCompatibility(AggCheckArgs)
    \/ result = NoResult /\ ScanProject(AggScanArgs, AggScanArrays)

SpecAgg == InitAgg /\ [][NextAgg]_vars

AggDone == result.op \in {"check_compatibility", "scan_project"}

Summarised ==
    AggDone /\ ~result.inner.threw /\ "summary" \in DOMAIN result.inner.value

Range(list) == {list[i] : i \in 1..Len(list)}

\* C8: commonUnsupported holds a feature exactly when the feature is in the
\* unsupported list of every requested target, for every feature list
\* (repeated identifiers included) and every target list.
C8_CommonUnsupportedIsIntersection ==
    Summarised =>
        LET v == result.inner.value
            targets == input.args.targets
        IN  \A f \in Features :
              (f \in Range(v.summary.commonUnsupported)) <=>
              (\A i \in 1..Len(targets) :
                   f \in Range(v.compatibility[targets[i]].unsupportedFeatures))

\* checking the target fails: in checkProjectCompatibility a target that
\* is no string, in checkSpecificFeatures a feature list that is no array
CheckFails(target) ==
    IF input.tool = "scan_project"
    THEN Len(input.featuresArray) > 0 /\ ~IsString(target)
    ELSE ~IsArray(input.args.features)

\* C9: when checking one of the requested targets fails, the call still
\* returns a result with a summary, the failing target has an error entry
\* and every other target has its results.
C9_TargetFailureIsolated ==
    (AggDone /\ \E t \in Range(input.args.targets) : CheckFails(t)) =>
        /\ ~result.inner.threw
        /\ "summary" \in DOMAIN result.inner.value
        /\ \A t \in Range(input.args.targets) :
             LET entry == result.inner.value.compatibility[t]
             IN  IF CheckFails(t) THEN "error" \in DOMAIN entry
                 ELSE "details" \in DOMAIN entry

----------------------------------------------------------------------------
(* The default target of the tools, under the server process Spec.         *)

\* the call was made without a targets argument and has checked features
CheckedWithoutTargets ==
    /\ AggDone
    /\ "targets" \notin DOMAIN input.args
    /\ ~result.inner.threw
    /\ "compatibility" \in DOMAIN result.inner.value

\* the file, the environment and every ConfigManager that has loaded agree
\* on the default baseline b
BaselineIs(b) ==
    /\ loadConfig(Null, file, env).defaultBaseline = b
    /\ \A m \in Managers : cm[m] # Null => cm[m].defaultBaseline = b

\* C12: scan_project or check_compatibility without a targets argument
\* checks the one target that is the default baseline of the effective
\* configuration, so after a set_baseline(b) that succeeded it checks b.
C12_DefaultTargetIsBaseline ==
    CheckedWithoutTargets =>
        \A b \in {Token(chrome, v37), Token(chrome, v57)} :
            BaselineIs(b) => DOMAIN result.inner.value.compatibility = {b}

----------------------------------------------------------------------------
(* One ConfigManager, the one of enhanced-tools.js: loadConfig, updateConfig *)
(* and manage_config called in any order, the configuration file edited by  *)
(* its owner in between.                                                    *)

\* the arguments of manage_config: every action with its parameters, and
\* every mutating action with a required parameter left out
ManageArgs ==
    {EmptyMap,
     [action |-> "set_baseline", baseline |-> Token(chrome, v57)],
     [action |-> "add_polyfill", polyfill |-> "css-grid"],
     [action |-> "remove_polyfill", polyfill |-> "css-grid"],
     [action |-> "set_override", feature |-> "css-grid", override |-> "supported"],
     [action |-> "add_target", targetName |-> Token(chrome, v37),
      browser |-> chrome, version |-> v60],
     [action |-> "reset"],
     [action |-> "create_template"],
     [action |-> "unknown"],
     [action |-> "set_baseline"],
     [action |-> "add_polyfill"],
     [action |-> "remove_polyfill"],
     [action |-> "set_override", feature |-> "css-grid"],
     [action |-> "set_override", override |-> "supported"],
     [action |-> "add_target", targetName |-> Token(chrome, v57), browser |-> chrome],
     [action |-> "add_target", browser |-> chrome, version |-> v57]}

\* what the owner of the project leaves in .caniuse-config.json
EditedFiles ==
    {NoFile,
     FileWith([defaultBaseline |-> Token(firefox, esr)]),
     FileWith([polyfills |-> <<"flexbox">>,
               customTargets |-> (mobile :> [browser |-> safari, version |-> v12])])}

UpdatePatches ==
    {[defaultBaseline |-> Token(chrome, v57)], [polyfills |-> <<"flexbox">>]}

InitConfig ==
    /\ file \in EditedFiles
    /\ env \in {EmptyMap, [defaultBaseline |-> Token(safari, v12)]}
    /\ cm = NotLoaded
    /\ cache = EmptyMap
    /\ remote = EmptyMap
    /\ now = 0
    /\ input = EmptyMap
    /\ result = NoResult

\* configManager.loadConfig(): the configuration, which the manager holds
\* from then on, or the TypeError of the merge
CallLoadConfig ==
    /\ input' = [tool |-> "loadConfig"]
    /\ IF loadConfigThrows(cm["tools"], file, env)
       THEN /\ result' = [op |-> "loadConfig", threw |-> TRUE, value |-> Null]
            /\ cm' = cm
       ELSE \E config \in {loadConfig(cm["tools"], file, env)} :
              /\ result' = [op |-> "loadConfig", threw |-> FALSE, value |-> config]
              /\ cm' = [cm EXCEPT !["tools"] = config]
    /\ UNCHANGED <<file, env, cache, remote, now>>

\* configManager.updateConfig(updates); the write of the file succeeds or fails
CallUpdateConfig ==
    \E updates \in UpdatePatches, writeOk \in BOOLEAN :
      \E r \in {updateConfig(cm["tools"], file, env, updates, writeOk)} :
        /\ input' = [tool |-> "updateConfig", updates |-> updates]
        /\ result' = [op |-> "updateConfig", threw |-> r.threw, value |-> r.config]
        /\ file' = r.file
        /\ cm' = [cm EXCEPT !["tools"] = r.config]
        /\ UNCHANGED <<env, cache, remote, now>>

\* the owner edits or deletes the configuration file
EditFile ==
    \E edited \in EditedFiles :
        /\ edited # file
        /\ file' = edited
        /\ input' = [tool |-> "edit"]
        /\ result' = NoResult
        /\ UNCHANGED <<env, cm, cache, remote, now>>

NextConfig ==
    \/ CallLoadConfig
    \/ CallUpdateConfig
    \/ ManageConfig(ManageArgs)
    \/ EditFile

SpecConfig == InitConfig /\ [][NextConfig]_vars

\* C13: a ConfigManager that has loaded returns the configuration it holds
\* on every loadConfig, whatever the file holds by then; one that has not
\* loaded computes it from the file and the environment and holds it; an
\* updateConfig that succeeds writes the patched configuration to the file
\* and returns and holds the configuration loaded anew from that file.
C13_LoadOnceReloadOnUpdate ==
    [][/\ (input'.tool = "loadConfig" /\ cm["tools"] # Null) =>
             /\ result'.value = cm["tools"]
             /\ cm' = cm
       /\ (input'.tool = "loadConfig" /\ cm["tools"] = Null) =>
             /\ result'.value = MergeConfig(IF file.exists THEN file.content
                                            ELSE EmptyMap, env)
             /\ cm'["tools"] = result'.value
       /\ (input'.tool = "updateConfig" /\ ~result'.threw) =>
             /\ file'.exists
             /\ file'.content =
                  Spread(IF cm["tools"] # Null THEN cm["tools"]
                         ELSE MergeConfig(IF file.exists THEN file.content
                                          ELSE EmptyMap, env),
                         input'.updates)
             /\ result'.value = MergeConfig(file'.content, env)
             /\ cm'["tools"] = result'.value]_vars

\* loadConfig has answered from the cache while the file holds something else
C13_Witness ==
    /\ result.op = "loadConfig"
    /\ result.value = cm["tools"]
    /\ result.value # MergeConfig(IF file.exists THEN file.content ELSE EmptyMap, env)

----------------------------------------------------------------------------
(* The first loadConfig of a ConfigManager, for every configuration file   *)
(* and environment below.                                                  *)

\* the configuration files: absent, unreadable, no JSON, the JSON null, a
\* polyfills entry that is a number, and well-formed ones
MergeFiles ==
    {NoFile,
     [exists |-> TRUE, readable |-> FALSE, content |-> configTemplate],
     [exists |-> TRUE, parses |-> FALSE, content |-> configTemplate],
     FileWith(Null),
     FileWith([polyfills |-> number5]),
     FileWith(EmptyMap),
     FileWith([defaultBaseline |-> Token(chrome, v57)]),
     FileWith([polyfills |-> <<"css-grid">>,
               overrides |-> ("css-grid" :> "unsupported") @@ ("flexbox" :> "supported")]),
     FileWith([customTargets    |-> (mobile :> [browser |-> safari, version |-> v12]),
               browserFallbacks |-> (chrome :> <<v57>>) @@ (opera :> <<v12>>)]),
     FileWith(configTemplate)}

\* ["flexbox"]
polyfillsJson ==
    EnvText(<<"[", "\"", "f", "l", "e", "x", "b", "o", "x", "\"", "]">>,
            TRUE, <<"flexbox">>)

\* flexbox, css-grid
polyfillsList ==
    EnvText(<<"f", "l", "e", "x", "b", "o", "x", ",", " ",
              "c", "s", "s", "-", "g", "r", "i", "d">>, FALSE, <<>>)

\* 5
polyfillsNumber == EnvText(<<"5">>, TRUE, number5)

\* {"css-grid":"supported"}
overridesJson ==
    EnvText(<<"{", "\"", "c", "s", "s", "-", "g", "r", "i", "d", "\"", ":",
              "\"", "s", "u", "p", "p", "o", "r", "t", "e", "d", "\"", "}">>,
            TRUE, ("css-grid" :> "supported"))

\* css-grid=supported
overridesInvalid ==
    EnvText(<<"c", "s", "s", "-", "g", "r", "i", "d", "=",
              "s", "u", "p", "p", "o", "r", "t", "e", "d">>, FALSE, EmptyMap)

\* process.env: each of the three variables unset or set
ProcessEnvs ==
    {b @@ p @@ o :
       b \in {EmptyMap} \cup
             {("CANIUSE_DEFAULT_BASELINE" :> t) : t \in {NoString, Token(firefox, esr)}},
       p \in {EmptyMap} \cup
             {("CANIUSE_POLYFILLS" :> t) :
                t \in {polyfillsJson, polyfillsList, polyfillsNumber}},
       o \in {EmptyMap} \cup
             {("CANIUSE_OVERRIDES" :> t) : t \in {overridesJson, overridesInvalid}}}

InitMerge ==
    /\ file \in MergeFiles
    /\ \E processEnv \in ProcessEnvs :
         /\ env = loadFromEnvironment(processEnv)
         /\ input = [processEnv |-> processEnv]
    /\ cm = NotLoaded
    /\ cache = EmptyMap
    /\ remote = EmptyMap
    /\ now = 0
    /\ result = NoResult

\* the first configManager.loadConfig() of the process
CallFirstLoadConfig ==
    /\ result = NoResult
    /\ IF loadConfigThrows(cm["tools"], file, env)
       THEN /\ result' = [op |-> "loadConfig", threw |-> TRUE, value |-> Null]
            /\ cm' = cm
       ELSE \E config \in {loadConfig(cm["tools"], file, env)} :
              /\ result' = [op |-> "loadConfig", threw |-> FALSE, value |-> config]
              /\ cm' = [cm EXCEPT !["tools"] = config]
    /\ UNCHANGED <<file, env, cache, remote, now, input>>

NextMerge == CallFirstLoadConfig

SpecMerge == InitMerge /\ [][NextMerge]_vars

MergeDone == result.op = "loadConfig"

\* the value of key k in the maps d < f < e
Merged(d, f, e, k) ==
    IF k \in DOMAIN e THEN e[k] ELSE IF k \in DOMAIN f THEN f[k] ELSE d[k]

\* C14: the configuration loadConfig returns has the default baseline of the
\* environment, else of the file, else of the defaults; its polyfills are
\* the lists of defaults, file and environment one after the other; its
\* overrides, custom targets and fallbacks have the keys of all three
\* sources, each with the value of the last source that has the key.
C14_MergeOrder ==
    (MergeDone /\ ~result.threw) =>
        LET fileConfig == ReadConfigFile(file)
            value      == result.value
        IN  /\ value.defaultBaseline =
                 IF "defaultBaseline" \in DOMAIN env THEN env.defaultBaseline
                 ELSE IF "defaultBaseline" \in DOMAIN fileConfig
                      THEN fileConfig.defaultBaseline
                      ELSE defaultConfig.defaultBaseline
            /\ value.polyfills =
                 defaultConfig.polyfills \o Field(fileConfig, "polyfills", <<>>)
                                         \o Field(env, "polyfills", <<>>)
            /\ \A name \in {"overrides", "customTargets", "browserFallbacks"} :
                 LET d == defaultConfig[name]
                     f == Field(fileConfig, name, EmptyMap)
                     e == Field(env, name, EmptyMap)
                 IN  /\ DOMAIN value[name] = DOMAIN d \cup DOMAIN f \cup DOMAIN e
                     /\ \A k \in DOMAIN value[name] :
                          value[name][k] = Merged(d, f, e, k)

\* file and environment both set the baseline, polyfills and overrides
C14_Witness ==
    /\ MergeDone /\ ~result.threw
    /\ file = FileWith(configTemplate)
    /\ result.value.defaultBaseline = Token(firefox, esr)
    /\ result.value.polyfills = <<"css-grid", "flexbox", "promises", "flexbox", "css-grid">>
    /\ DOMAIN result.value.overrides = {"css-variables", "css-grid"}

----------------------------------------------------------------------------
(* The target table and the argument checks of manage_config, under        *)
(* SpecConfig.                                                             *)

\* C15: after every sequence of manage_config calls, updates and edits of
\* the file, the table getBrowserTargets returns holds the six built-in
\* target identifiers, and so does the list manage_config view reports.
C15_BuiltInTargetsPresent ==
    LET BuiltIn == {Token(chrome, v37), Token(chrome, latest), Token(firefox, esr),
                    Token(safari, v12), Token(ie, v11), Token(edge, legacy)}
    IN  /\ BuiltIn \subseteq
              DOMAIN getBrowserTargets(loadConfig(cm["tools"], file, env))
        /\ (result.op = "manage_config" /\ result.output.action = "view") =>
              BuiltIn \subseteq result.output.availableTargets

\* view after a custom target with the name of a built-in one was added
C15_Witness ==
    /\ result.op = "manage_config"
    /\ result.output.action = "view"
    /\ Token(chrome, v37) \in DOMAIN cm["tools"].customTargets
    /\ Token(chrome, v57) \in DOMAIN cm["tools"].customTargets

\* the arguments name a mutating action and leave out a parameter it needs
MissesParameter(args) ==
    LET Omits(name) == name \notin DOMAIN args
        action == Field(args, "action", "view")
    IN  \/ action = "set_baseline" /\ Omits("baseline")
        \/ action \in {"add_polyfill", "remove_polyfill"} /\ Omits("polyfill")
        \/ action = "set_override" /\ (Omits("feature") \/ Omits("override"))
        \/ action = "add_target" /\
             (Omits("targetName") \/ Omits("browser") \/ Omits("version"))

\* C20: a manage_config call for set_baseline, add_polyfill, remove_polyfill,
\* set_override or add_target that leaves out a required parameter returns a
\* failure (error = true, no success) and changes neither the configuration
\* file nor the configuration the manager holds.
C20_MissingParameterFails ==
    [][(input'.tool = "manage_config" /\ MissesParameter(input'.args)) =>
          /\ result'.output.error
          /\ ~result'.output.success
          /\ result'.output.action = input'.args.action
          /\ file' = file
          /\ cm' = cm]_vars

\* add_target without a version has failed on a loaded manager with a file
C20_Witness ==
    /\ result.op = "manage_config"
    /\ Field(input.args, "action", "view") = "add_target"
    /\ "version" \notin DOMAIN input.args
    /\ result.output.error
    /\ cm["tools"] # Null
    /\ file.exists

----------------------------------------------------------------------------
(* Bad configuration input, under SpecMerge.                               *)

\* the file is absent, unreadable, no JSON, or JSON that is no configuration
\* object (null, a polyfills entry that is no list)
BadFile ==
    \/ ~file.exists
    \/ ~Field(file, "readable", TRUE)
    \/ ~Field(file, "parses", TRUE)
    \/ file.content = Null
    \/ Field(file.content, "polyfills", <<>>) = number5

\* CANIUSE_OVERRIDES is set to a text that is no JSON
BadOverrides ==
    /\ "CANIUSE_OVERRIDES" \in DOMAIN input.processEnv
    /\ ~input.processEnv["CANIUSE_OVERRIDES"].parses

\* C19: loadConfig does not fail on bad configuration input; a file that is
\* absent, unreadable, unparsable or malformed contributes nothing, so that
\* the configuration is the defaults merged with the environment, and an
\* override map of the environment that is invalid contributes nothing.
C19_BadInputIgnored ==
    MergeDone =>
        /\ BadFile =>
              /\ ~result.threw
              /\ result.value = MergeConfig(EmptyMap, env)
        /\ BadOverrides =>
              /\ "overrides" \notin DOMAIN env
              /\ ~result.threw =>
                    result.value.overrides =
                      Field(ReadConfigFile(file), "overrides", EmptyMap)

----------------------------------------------------------------------------
(* The scores: _generateCompatibilitySummary called, as checkSpecificFeatures *)
(* calls it, on the per-target results _checkFeaturesForTarget returns for   *)
(* one feature list of at most MaxDetails entries.                           *)

MaxDetails == 4

\* the identifiers of the feature list, in order
ScoreFeatures ==
    <<"css-grid", "flexbox", "fetch", "promises", "webp", "es6-class">>

ScoreTargetLists ==
    {<<Token(chrome, v37)>>, <<Token(chrome, v37), Token(chrome, v57)>>}

Outcomes == {"supported", "unsupported", "error"}

\* what one callback of features.map returns: the decision of the client, or
\* the error entry of the catch block
DetailOf(feature, outcome) ==
    IF outcome = "error"
    THEN [feature |-> feature, supported |-> FALSE, status |-> "error",
          description |-> "Could not check feature", source |-> "error",
          rawValue |-> NoCode, originalSupport |-> NoStatus, error |-> TRUE]
    ELSE [feature |-> feature, supported |-> outcome = "supported",
          status |-> IF outcome = "supported" THEN "full" ELSE "none",
          description |-> IF outcome = "supported" THEN "Full support"
                          ELSE "No support",
          source |-> "caniuse-data",
          rawValue |-> IF outcome = "supported" THEN "y" ELSE "n",
          originalSupport |-> NoStatus, error |-> FALSE]

\* results of checkSpecificFeatures: one _checkFeaturesForTarget per target
ResultsOf(targets, outcomes) ==
    [t \in Range(targets) |->
        LET j == CHOOSE j \in 1..Len(targets) : targets[j] = t
        IN  TargetResult([i \in 1..Len(outcomes[j]) |->
                            DetailOf(ScoreFeatures[i], outcomes[j][i])])]

InitScore ==
    /\ file = NoFile
    /\ env = EmptyMap
    /\ cm = NotLoaded
    /\ cache = EmptyMap
    /\ remote = EmptyMap
    /\ now = 0
    /\ input = EmptyMap
    /\ result = NoResult

\* this._generateCompatibilitySummary(results, targets)
Summarise ==
    /\ result = NoResult
    /\ \E targets \in ScoreTargetLists, k \in 0..MaxDetails :
         \E outcomes \in [1..Len(targets) -> [1..k -> Outcomes]] :
           \E results \in {ResultsOf(targets, outcomes)} :
             /\ input' = [tool |-> "summary", targets |-> targets,
                          compatibility |-> results]
             /\ result' = [op |-> "summary",
                           value |-> generateCompatibilitySummary(results, targets)]
    /\ UNCHANGED <<file, env, cm, cache, remote, now>>

NextScore == Summarise

SpecScore == InitScore /\ [][NextScore]_vars

ScoreDone == result.op = "summary" /\ ~result.value.threw

\* s is the integer nearest to num / den, a half rounded up
Nearest(s, num, den) ==
    /\ 2 * den * s <= 2 * num + den
    /\ 2 * num + den < 2 * den * (s + 1)

\* C16: the score of every per-target result is round(supported / total *
\* 100) when total > 0 and 100 when total = 0; so it is 100 when supported =
\* total and 0 when supported = 0 and total > 0.
C16_TargetScore ==
    ScoreDone =>
        \A t \in Range(input.targets) :
            LET r == input.compatibility[t]
                score == result.value.targets[t].score
            IN  /\ r.total = 0 => score = 100
                /\ r.total > 0 => Nearest(score, 100 * r.supported, r.total)
                /\ r.supported = r.total => score = 100
                /\ (r.supported = 0 /\ r.total > 0) => score = 0

\* two of three features are supported in a target: 66.67 rounds to 67
C16_Witness ==
    /\ ScoreDone
    /\ \E t \in Range(input.targets) :
         /\ input.compatibility[t].total = 3
         /\ input.compatibility[t].supported = 2
         /\ result.value.targets[t].score = 67

RECURSIVE SumOver(_, _, _, _)
SumOver(compatibility, targets, field, i) ==
    IF i > Len(targets) THEN 0
    ELSE compatibility[targets[i]][field]
         + SumOver(compatibility, targets, field, i + 1)

\* C17: overallScore is round(S / (T * n) * 100) for S the sum of the
\* supported counts, T the sum of the totals and n the number of requested
\* targets, and 100 when T = 0.
C17_OverallScore ==
    ScoreDone =>
        LET S == SumOver(input.compatibility, input.targets, "supported", 1)
            T == SumOver(input.compatibility, input.targets, "total", 1)
            n == Len(input.targets)
        IN  /\ T = 0 => result.value.overallScore = 100
            /\ T > 0 => Nearest(result.value.overallScore, 100 * S, T * n)

\* two targets that support every feature score 100 each, and the overall
\* score is 50: it is not the average of the per-target scores
C17_Witness ==
    /\ ScoreDone
    /\ Len(input.targets) = 2
    /\ \A t \in Range(input.targets) :
         /\ input.compatibility[t].total = 3
         /\ result.value.targets[t].score = 100
    /\ result.value.overallScore = 50

----------------------------------------------------------------------------
(* Scanner: ProjectScanner                                                 *)

\* extensions and names are sequences of characters
dotjs   == <<".", "j", "s">>
dotjsx  == <<".", "j", "s", "x">>
dotts   == <<".", "t", "s">>
dottsx  == <<".", "t", "s", "x">>
dotcss  == <<".", "c", "s", "s">>
dotscss == <<".", "s", "c", "s", "s">>
dotsass == <<".", "s", "a", "s", "s">>
dotless == <<".", "l", "e", "s", "s">>

supportedExtensions ==
    <<dotjs, dotjsx, dotts, dottsx, dotcss, dotscss, dotsass, dotless>>

jsExtensions == <<dotjs, dotjsx, dotts, dottsx>>

cssExtensions == <<dotcss, dotscss, dotsass, dotless>>

\* the keys of the two pattern banks, in order
cssFeaturePatterns ==
    <<"css-grid", "flexbox", "css-variables", "css-sticky", "object-fit",
      "css-transforms", "css-transitions", "css-animation", "css-filters",
      "css-masks", "css-clip-path", "border-radius", "calc", "css-gradients">>

jsFeaturePatterns ==
    <<"arrow-functions", "const", "let", "destructuring", "template-literals",
      "spread-syntax", "promises", "async-await", "es6-class", "for-of",
      "array-includes", "object-assign", "es6-modules">>

Includes(list, v) == \E i \in 1..Len(list) : list[i] = v

\* path.extname of a file name: from the last dot on, a dot that starts the
\* name not counted
extname(item) ==
    LET dots == {i \in 2..Len(item) : item[i] = "."}
    IN  IF dots = {} THEN <<>>
        ELSE SubSeq(item, CHOOSE i \in dots : \A j \in dots : j <= i, Len(item))

\* ProjectScanner.scanFile on a readable file; text is the set of feature
\* identifiers of which a pattern matches the content
scanFile(filePath, text) ==
    LET ext == extname(filePath[Len(filePath)])
        Matches(feature) == feature \in text
    IN  IF Includes(jsExtensions, ext)
        THEN [file |-> filePath, type |-> "javascript",
              features |-> SelectSeq(jsFeaturePatterns, Matches)]
        ELSE IF Includes(cssExtensions, ext)
        THEN [file |-> filePath, type |-> "css",
              features |-> SelectSeq(cssFeaturePatterns, Matches)]
        ELSE [file |-> filePath, features |-> <<>>]

\* the forEach over fileResult.features: results.features is a Map, kept as
\* the list of its entries in insertion order
RECURSIVE IndexFeatures(_, _, _, _)
IndexFeatures(features, fileFeatures, itemPath, i) ==
    IF i > Len(fileFeatures) THEN features
    ELSE
      LET feature == fileFeatures[i]
          at      == {k \in 1..Len(features) : features[k].feature = feature}
          had     == IF at = {}
                     THEN Append(features, [feature |-> feature, files |-> <<>>])
                     ELSE features
          k       == CHOOSE k \in 1..Len(had) : had[k].feature = feature
      IN  Once([had EXCEPT ![k].files = Append(@, [file |-> itemPath])],
               LAMBDA next : IndexFeatures(next, fileFeatures, itemPath, i + 1))

\* the test of a file item by its extension alone
shouldInclude_ExtensionOnly(item, includeFiles) ==
    Includes(supportedExtensions, extname(item))

\* shouldInclude of _scanDirectoryRecursive
shouldInclude(item, includeFiles) ==
    Includes(supportedExtensions, extname(item)) \/ Includes(includeFiles, item)

\* a file is recorded whether or not it has features
IncludeFile_WithoutFeatures(results, itemPath, text) ==
    LET ext        == extname(itemPath[Len(itemPath)])
        fileResult == scanFile(itemPath, text)
        called     == [results EXCEPT !.scanned = Append(@, itemPath)]
    IN  [called EXCEPT
           !.files = Append(@, fileResult),
           !.summary.totalFiles = @ + 1,
           !.summary.jsFiles =
               IF Includes(jsExtensions, ext) THEN @ + 1 ELSE @,
           !.summary.cssFiles =
               IF ~Includes(jsExtensions, ext) /\ Includes(cssExtensions, ext)
               THEN @ + 1 ELSE @,
           !.features = IndexFeatures(@, fileResult.features, itemPath, 1)]

\* a file item of the loop that is to be included: scanFile is called, and a
\* file with features is recorded
IncludeFile(results, itemPath, text) ==
    LET ext        == extname(itemPath[Len(itemPath)])
        fileResult == scanFile(itemPath, text)
        called     == [results EXCEPT !.scanned = Append(@, itemPath)]
    IN  IF Len(fileResult.features) > 0
        THEN [called EXCEPT
                !.files = Append(@, fileResult),
                !.summary.totalFiles = @ + 1,
                !.summary.jsFiles =
                    IF Includes(jsExtensions, ext) THEN @ + 1 ELSE @,
                !.summary.cssFiles =
                    IF ~Includes(jsExtensions, ext) /\ Includes(cssExtensions, ext)
                    THEN @ + 1 ELSE @,
                !.features = IndexFeatures(@, fileResult.features, itemPath, 1)]
        ELSE called

\* ProjectScanner._scanDirectoryRecursive, and its loop over the items of
\* the directory from item i on; tree maps the path of a directory to its
\* listing, results.scanned lists the calls of scanFile
RECURSIVE scanDirectoryRecursive(_, _, _, _, _, _, _)
RECURSIVE ScanItems(_, _, _, _, _, _, _, _)
ScanItems(tree, dirPath, results, currentDepth, maxDepth, excludeDirs, includeFiles, i) ==
    IF i > Len(tree[dirPath]) THEN results
    ELSE
      LET item     == tree[dirPath][i]
          itemPath == Append(dirPath, item.name)
          next ==
            IF item.isDirectory /\ ~Includes(excludeDirs, item.name)
            THEN scanDirectoryRecursive(tree, itemPath, results, currentDepth + 1,
                                        maxDepth, excludeDirs, includeFiles)
            ELSE IF item.isFile /\ shouldInclude(item.name, includeFiles)
            THEN IncludeFile(results, itemPath, item.text)
            ELSE results
      IN  Once(next, LAMBDA r :
                 ScanItems(tree, dirPath, r, currentDepth, maxDepth,
                           excludeDirs, includeFiles, i + 1))

scanDirectoryRecursive(tree, dirPath, results, currentDepth, maxDepth, excludeDirs, includeFiles) ==
    IF currentDepth > maxDepth THEN results
    ELSE ScanItems(tree, dirPath, results, currentDepth, maxDepth,
                   excludeDirs, includeFiles, 1)

node_modules == <<"n", "o", "d", "e", "_", "m", "o", "d", "u", "l", "e", "s">>
dotgit       == <<".", "g", "i", "t">>
dist         == <<"d", "i", "s", "t">>
build        == <<"b", "u", "i", "l", "d">>

defaultMaxDepth == 5

\* ProjectScanner.scanDirectory
scanDirectory(tree, dirPath, options) ==
    LET maxDepth     == Field(options, "maxDepth", defaultMaxDepth)
        excludeDirs  == Field(options, "excludeDirs",
                              <<node_modules, dotgit, dist, build>>)
        includeFiles == Field(options, "includeFiles", <<>>)
    IN  Once(scanDirectoryRecursive(tree, dirPath,
               [scanned |-> <<>>, files |-> <<>>, features |-> <<>>,
                summary |-> [totalFiles |-> 0, jsFiles |-> 0, cssFiles |-> 0,
                             featuresFound |-> 0]],
               0, maxDepth, excludeDirs, includeFiles),
             LAMBDA results :
               [results EXCEPT !.summary.featuresFound = Len(results.features)]
               @@ [featuresArray |->
                     [k \in 1..Len(results.features) |-> results.features[k].feature]])

----------------------------------------------------------------------------
(* The scanner on a project tree: directories nested MaxLevels deep, each  *)
(* holding the same files, scanned with every combination of options.      *)

MaxLevels == 2

srcDir == <<"s", "r", "c">>

DirNames == <<srcDir, node_modules>>

a_js  == <<"a", ".", "j", "s">>
b_css == <<"b", ".", "c", "s", "s">>
c_md  == <<"c", ".", "m", "d">>
e_ts  == <<"e", ".", "t", "s">>

FileNames == <<a_js, b_css, c_md, e_ts>>

\* the features of which a pattern matches the content of the file
TextOf(name) ==
    CASE name = a_js  -> {"arrow-functions", "const"}
      [] name = b_css -> {"flexbox"}
      [] name = c_md  -> {"flexbox", "const"}
      [] OTHER        -> {}

FileItem(name) ==
    [name |-> name, isDirectory |-> FALSE, isFile |-> TRUE, text |-> TextOf(name)]

DirItem(name) ==
    [name |-> name, isDirectory |-> TRUE, isFile |-> FALSE, text |-> {}]

\* the project: every directory holds the files of the set present, and the
\* directories of DirNames down to MaxLevels levels; readdir lists the files
\* first or the directories first
TreeOf(present, dirsFirst) ==
    [dirPath \in UNION {[1..k -> Range(DirNames)] : k \in 0..MaxLevels} |->
        LET IsPresent(name) == name \in present
            names == SelectSeq(FileNames, IsPresent)
            files == [i \in 1..Len(names) |-> FileItem(names[i])]
            dirs  == IF Len(dirPath) < MaxLevels
                     THEN [i \in 1..Len(DirNames) |-> DirItem(DirNames[i])]
                     ELSE <<>>
        IN  IF dirsFirst THEN dirs \o files ELSE files \o dirs]

Trees ==
    {TreeOf(present, dirsFirst) :
        present \in (SUBSET Range(FileNames)) \ {{}}, dirsFirst \in BOOLEAN}

\* an option left out, or given one of the values
Option(name, values) == {EmptyMap} \cup {name :> v : v \in values}

ScanOptions ==
    {Spread(Spread(d, e), f) :
        d \in Option("maxDepth", -1..(MaxLevels + 1)),
        e \in Option("excludeDirs", {<<>>, <<node_modules>>, <<srcDir>>}),
        f \in Option("includeFiles", {<<c_md>>, <<a_js>>})}

InitScan ==
    /\ file = NoFile
    /\ env = EmptyMap
    /\ cm = NotLoaded
    /\ cache = EmptyMap
    /\ remote = EmptyMap
    /\ now = 0
    /\ input = EmptyMap
    /\ result = NoResult

\* scanner.scanDirectory(projectPath, options)
ScanDirectory ==
    /\ result = NoResult
    /\ \E tree \in Trees, options \in ScanOptions :
         /\ input' = [tool |-> "scanDirectory", tree |-> tree, options |-> options]
         /\ result' = [op |-> "scanDirectory",
                       value |-> scanDirectory(tree, <<>>, options)]
    /\ UNCHANGED <<file, env, cm, cache, remote, now>>

NextScan == ScanDirectory

SpecScan == InitScan /\ [][NextScan]_vars

ScanDone == result.op = "scanDirectory"

\* the paths of the files of the project
FilePaths(tree) ==
    UNION {{Append(dirPath, tree[dirPath][i].name) :
              i \in {i \in 1..Len(tree[dirPath]) : tree[dirPath][i].isFile}} :
           dirPath \in DOMAIN tree}

\* the options in force, the defaults of scanDirectory filled in
maxDepthGiven     == Field(input.options, "maxDepth", defaultMaxDepth)
excludeDirsGiven  == Field(input.options, "excludeDirs",
                           <<node_modules, dotgit, dist, build>>)
includeFilesGiven == Field(input.options, "includeFiles", <<>>)

\* the number of directory levels between the file and the root
Levels(path) == Len(path) - 1

BelowExcluded(path) ==
    \E i \in 1..(Len(path) - 1) : Includes(excludeDirsGiven, path[i])

\* the files scanFile was called on, and the files of the result's per-file
\* list and feature index
ScannedPaths == Range(result.value.scanned)

ResultPaths ==
    {result.value.files[k].file : k \in 1..Len(result.value.files)}
    \cup UNION {{result.value.features[k].files[j].file :
                   j \in 1..Len(result.value.features[k].files)} :
                k \in 1..Len(result.value.features)}

\* with maxDepth = 0 only files directly in the root are scanned, and no
\* file of a nested directory is in the result
TopLevelOnly ==
    maxDepthGiven = 0 =>
        /\ \A path \in ScannedPaths \cup ResultPaths : Levels(path) = 0
        /\ \A path \in FilePaths(input.tree) :
             (Levels(path) = 0 /\ Includes(supportedExtensions, extname(path[1])))
                => path \in ScannedPaths

\* C18 as stated: a file is scanned exactly when it is at most maxDepth
\* levels below the root, not below an excluded directory, and its extension
\* is supported; with maxDepth = 0 only the files of the root are scanned and
\* no nested file is in the result.
C18_ScannedBySupportedExtension ==
    ScanDone =>
        /\ \A path \in FilePaths(input.tree) :
             path \in ScannedPaths <=>
                /\ Levels(path) <= maxDepthGiven
                /\ ~BelowExcluded(path)
                /\ Includes(supportedExtensions, extname(path[Len(path)]))
        /\ TopLevelOnly

\* C18 amended: a file is scanned exactly when it is at most maxDepth levels
\* below the root, not below an excluded directory, and its extension is
\* supported or its name is in includeFiles; with maxDepth = 0 only the
\* files of the root are scanned and no nested file is in the result.
C18_ScannedBySupportedExtensionOrName ==
    ScanDone =>
        /\ \A path \in FilePaths(input.tree) :
             path \in ScannedPaths <=>
                /\ Levels(path) <= maxDepthGiven
                /\ ~BelowExcluded(path)
                /\ \/ Includes(supportedExtensions, extname(path[Len(path)]))
                   \/ Includes(includeFilesGiven, path[Len(path)])
        /\ TopLevelOnly

\* maxDepth = 0 and includeFiles = ["c.md"]: a.js and c.md of the root are
\* scanned, a.js is in the result, src/a.js is neither scanned nor there
C18_Witness ==
    /\ ScanDone
    /\ maxDepthGiven = 0
    /\ <<a_js>> \in ScannedPaths \cap ResultPaths
    /\ <<c_md>> \in ScannedPaths \ ResultPaths
    /\ <<srcDir, a_js>> \in FilePaths(input.tree) \ (ScannedPaths \cup ResultPaths)

----------------------------------------------------------------------------
(* The tally of one target, under the aggregator SpecAgg.                  *)

\* the positions of the details whose decision has kind error
ErrorDecisions(r) == {i \in 1..Len(r.details) : r.details[i].status = "error"}

\* C21: in the per-target result of _checkFeaturesForTarget every feature
\* whose decision has kind error is in the errored set and counted in
\* errors, and neither in the unsupported set nor counted in unsupported;
\* the supported, unsupported and errored sets are pairwise disjoint and
\* together cover the requested features.
C21_ErrorDecisionsAreErrors ==
    Summarised =>
        \A t \in DOMAIN result.inner.value.compatibility :
            LET r == result.inner.value.compatibility[t]
                S == Range(r.supportedFeatures)
                U == Range(r.unsupportedFeatures)
                E == Range(r.errorFeatures)
            IN  "details" \in DOMAIN r =>
                  /\ \A i \in ErrorDecisions(r) :
                       r.details[i].feature \in E \ U
                  /\ r.errors = Cardinality(ErrorDecisions(r))
                  /\ r.unsupported =
                       Cardinality({i \in 1..Len(r.details) :
                                      ~r.details[i].supported} \ ErrorDecisions(r))
                  /\ S \cap U = {} /\ S \cap E = {} /\ U \cap E = {}
                  /\ S \cup U \cup E =
                       {r.details[i].feature : i \in 1..Len(r.details)}

\* C22: the compatibility.overallScore that scan_project reports is the
\* overallScore of the summary the aggregator computed, for every score from
\* 0 to 100, 0 included.
C22_ReportedScoreIsSummaryScore ==
    (Summarised /\ input.tool = "scan_project") =>
        result.output.compatibility.overallScore =
            result.inner.value.summary.overallScore

----------------------------------------------------------------------------
(* _checkFeaturesForTarget as its callbacks run: features.map starts one   *)
(* callback per feature, each reads the cache and, on a miss, waits for    *)
(* its request, and the requests complete in any order.                    *)

DetailTargets == {Token(chrome, v37), number37}

DetailCaches ==
    {EmptyMap, ("css-grid" :> [data |-> mixedData, timestamp |-> 0])}

InitDetails ==
    /\ file = NoFile
    /\ env = EmptyMap
    /\ cm = NotLoaded
    /\ cache \in DetailCaches
    /\ remote = ("css-grid" :> mixedData) @@ ("flexbox" :> fullData)
    /\ now = 0
    /\ input = EmptyMap
    /\ result = NoResult

\* features.map(async (feature) => ...): every callback is started
StartCallbacks ==
    /\ result = NoResult
    /\ \E features \in ListsUpTo(Features, 0, MaxFeatures),
          targetString \in DetailTargets :
         /\ input' = [tool |-> "checkFeaturesForTarget", features |-> features,
                      targetString |-> targetString]
         /\ result' = [op |-> "pending", completed |-> <<>>,
                       callbacks |-> [i \in 1..Len(features) |-> [pc |-> "called"]]]
    /\ UNCHANGED <<file, env, cm, cache, remote, now>>

\* the callback's call needs a request to the service
NeedsRequest(config, cacheNow, feature, targetString) ==
    Once(checkFeatureSupportForTarget(config, cacheNow, feature, targetString, "ok"),
         LAMBDA r : ~r.threw /\ r.fetched)

\* callback i runs up to its request: a target that does not resolve, an
\* override or a fresh cache entry settles it at once
CallbackRuns(i) ==
    /\ result.op = "pending"
    /\ i \in DOMAIN result.callbacks
    /\ result.callbacks[i].pc = "called"
    /\ \E config \in {loadConfig(cm["client"], file, env)} :
         /\ cm' = [cm EXCEPT !["client"] = config]
         /\ IF NeedsRequest(config, cache, input.features[i], input.targetString)
            THEN result' = [result EXCEPT !.callbacks[i] = [pc |-> "fetching"]]
            ELSE result' = [result EXCEPT
                   !.completed = Append(@, i),
                   !.callbacks[i] =
                      [pc |-> "settled", response |-> "ok",
                       value |-> FeatureResult(config, cache, input.features[i],
                                               input.targetString, "ok")]]
    /\ UNCHANGED <<file, env, cache, remote, now, input>>

\* the cache without the entry of the feature
Without(cacheNow, feature) ==
    [k \in (DOMAIN cacheNow) \ {feature} |-> cacheNow[k]]

\* the request of callback i completes: the data is cached, or the failure
\* becomes the error decision
RequestCompletes(i) ==
    /\ result.op = "pending"
    /\ i \in DOMAIN result.callbacks
    /\ result.callbacks[i].pc = "fetching"
    /\ \E response \in {"ok", "network-error"} :
         \E r \in {checkFeatureSupportForTarget(cm["client"],
                      Without(cache, input.features[i]), input.features[i],
                      input.targetString, response)} :
           /\ cache' = Spread(cache, r.cache)
           /\ result' = [result EXCEPT
                  !.completed = Append(@, i),
                  !.callbacks[i] =
                     [pc |-> "settled", response |-> response,
                      value |-> FeatureResult(cm["client"],
                                   Without(cache, input.features[i]),
                                   input.features[i], input.targetString, response)]]
    /\ UNCHANGED <<file, env, cm, remote, now, input>>

\* the results in the order the callbacks settled
PromiseAll_SettleOrder(callbacks, completed) ==
    [k \in 1..Len(completed) |-> callbacks[completed[k]].value]

\* await Promise.all(...): the results in the order of the callbacks
PromiseAll(callbacks, completed) ==
    [i \in 1..Len(callbacks) |-> callbacks[i].value]

\* every callback has settled: the results are tallied and returned
AllSettled ==
    /\ result.op = "pending"
    /\ \A i \in 1..Len(result.callbacks) : result.callbacks[i].pc = "settled"
    /\ result' = [op |-> "checkFeaturesForTarget",
                  completed |-> result.completed,
                  callbacks |-> result.callbacks,
                  value |-> TargetResult(PromiseAll(result.callbacks, result.completed))]
    /\ UNCHANGED <<file, env, cm, cache, remote, now, input>>

NextDetails ==
    \/ StartCallbacks
    \/ \E i \in 1..MaxFeatures : CallbackRuns(i)
    \/ \E i \in 1..MaxFeatures : RequestCompletes(i)
    \/ AllSettled

SpecDetails == InitDetails /\ [][NextDetails]_vars

DetailsDone == result.op = "checkFeaturesForTarget"

\* C23: whatever the order in which the resolutions of the features of one
\* target complete, the details list is as long as the feature list and its
\* i-th entry is the result for the i-th requested feature.
C23_DetailsInRequestOrder ==
    DetailsDone =>
        /\ Len(result.value.details) = Len(input.features)
        /\ \A i \in 1..Len(input.features) :
             result.value.details[i] =
                FeatureResult(defaultConfig, EmptyMap, input.features[i],
                              input.targetString, result.callbacks[i].response)

\* two different features, the second settled first
C23_Witness ==
    /\ DetailsDone
    /\ result.completed = <<2, 1>>
    /\ input.features = <<"css-grid", "flexbox">>
    /\ result.value.details[1].status = "none"
    /\ result.value.details[2].status = "full"

----------------------------------------------------------------------------
(* The cache of the client over time: getFeatureData called again and      *)
(* again while the clock advances and the service's data changes.          *)

\* the clock runs up to this many hours
MaxHours == 36

InitCache ==
    /\ file = NoFile
    /\ env = EmptyMap
    /\ cm = NotLoaded
    /\ cache = EmptyMap
    /\ remote = ("css-grid" :> mixedData) @@ ("flexbox" :> fullData)
    /\ now = 0
    /\ input = EmptyMap
    /\ result = NoResult

\* Date.now() advances by twelve hours, or by a millisecond less
Tick ==
    /\ \E d \in {12 * Hour, 12 * Hour - 1} :
         /\ now + d <= MaxHours * Hour
         /\ now' = now + d
    /\ input' = [tool |-> "tick"]
    /\ result' = NoResult
    /\ UNCHANGED <<file, env, cm, cache, remote>>

\* caniuse.com publishes other data for css-grid
RemoteChanges ==
    /\ \E d \in {mixedData, fullData} :
         /\ d # remote["css-grid"]
         /\ remote' = [remote EXCEPT !["css-grid"] = d]
    /\ input' = [tool |-> "publish"]
    /\ result' = NoResult
    /\ UNCHANGED <<file, env, cm, cache, now>>

\* client.getFeatureData(featureName)
CallGetFeatureData ==
    /\ \E featureName \in Features, response \in Responses :
         \E r \in {getFeatureData(cache, featureName, response)} :
           /\ input' = [tool |-> "getFeatureData", featureName |-> featureName,
                        response |-> response,
                        cached |-> Field(cache, featureName, Null)]
           /\ result' = [op |-> "getFeatureData", threw |-> r.threw,
                         fetched |-> r.fetched, data |-> r.data]
           /\ cache' = r.cache
    /\ UNCHANGED <<file, env, cm, remote, now>>

NextCache ==
    \/ Tick
    \/ RemoteChanges
    \/ CallGetFeatureData

SpecCache == InitCache /\ [][NextCache]_vars

\* the entry of the feature exists and is less than 24 hours old
Fresh(featureName) ==
    /\ featureName \in DOMAIN cache
    /\ now - cache[featureName].timestamp < 24 * Hour

\* C24: getFeatureData serves the cached matrix without a request exactly
\* when the feature has an entry less than 24 hours old; an older entry is
\* not returned; a request that succeeds replaces the entry with the new
\* data and the current time, one that fails stores nothing; and nothing
\* but a call changes the cache.
C24_CacheTimeToLive ==
    [][IF input'.tool = "getFeatureData"
       THEN LET f == input'.featureName
            IN  /\ result'.fetched <=> ~Fresh(f)
                /\ Fresh(f) =>
                     /\ ~result'.threw
                     /\ result'.data = cache[f].data
                     /\ cache' = cache
                /\ (~Fresh(f) /\ input'.response = "ok") =>
                     /\ ~result'.threw
                     /\ result'.data = remote[f]
                     /\ cache' = Spread(cache,
                                        (f :> [data |-> remote[f], timestamp |-> now]))
                /\ (~Fresh(f) /\ input'.response # "ok") =>
                     /\ result'.threw
                     /\ cache' = cache
       ELSE cache' = cache]_vars

\* an entry of exactly 24 hours, holding data the service has replaced
\* since, was refetched: the call returned the new data and the entry has
\* the time of the call
C24_Witness ==
    /\ result.op = "getFeatureData"
    /\ input.cached = [data |-> mixedData, timestamp |-> now - 24 * Hour]
    /\ result.fetched /\ ~result.threw
    /\ result.data = fullData
    /\ cache[input.featureName] = [data |-> fullData, timestamp |-> now]

----------------------------------------------------------------------------
(* One ConfigManager and one writer: the mutations of the ConfigManager and *)
(* the mutating actions of manage_config, one call at a time, the write of  *)
(* the configuration file succeeding or failing.                            *)

\* calls are made while the polyfill list has at most this many entries
MaxPolyfills == 4

MutateFiles ==
    {NoFile,
     FileWith([polyfills |-> <<"flexbox">>]),
     FileWith([polyfills |-> <<"css-grid", "css-grid">>]),
     FileWith(configTemplate)}

MutateEnvs == {EmptyMap, [polyfills |-> <<"promises">>]}

MutationCalls ==
    {[op |-> "updateConfig", updates |-> u] :
        u \in {[defaultBaseline |-> Token(chrome, v57)],
               [polyfills |-> <<"css-grid">>]}}
    \cup {[op |-> o, feature |-> f] :
            o \in {"addPolyfill", "removePolyfill"}, f \in {"css-grid", "promises"}}
    \cup {[op |-> "setFeatureOverride", feature |-> "css-grid", supportStatus |-> st] :
            st \in {"supported", "unsupported"}}

MutateArgs ==
    {[action |-> "reset"],
     [action |-> "add_polyfill", polyfill |-> "css-grid"],
     [action |-> "remove_polyfill", polyfill |-> "css-grid"],
     [action |-> "remove_polyfill", polyfill |-> "promises"]}

InitMutate ==
    /\ file \in MutateFiles
    /\ env \in MutateEnvs
    /\ cm = NotLoaded
    /\ cache = EmptyMap
    /\ remote = EmptyMap
    /\ now = 0
    /\ input = EmptyMap
    /\ result = NoResult

\* the configuration a loadConfig() of the manager with this cached
\* configuration and this file returns
EffectiveOf(cached, fileNow) == loadConfig(cached, fileNow, env)

\* one call of a mutation of the ConfigManager
ApplyMutation(call, cached, fileNow, envNow, writeOk) ==
    CASE call.op = "updateConfig" ->
           updateConfig(cached, fileNow, envNow, call.updates, writeOk)
      [] call.op = "addPolyfill" ->
           addPolyfill(cached, fileNow, envNow, call.feature, writeOk)
      [] call.op = "removePolyfill" ->
           removePolyfill(cached, fileNow, envNow, call.feature, writeOk)
      [] call.op = "setFeatureOverride" ->
           setFeatureOverride(cached, fileNow, envNow, call.feature,
                              call.supportStatus, writeOk)

\* configManager.updateConfig / addPolyfill / removePolyfill /
\* setFeatureOverride
Mutate ==
    /\ Len(EffectiveOf(cm["tools"], file).polyfills) <= MaxPolyfills
    /\ \E call \in MutationCalls, writeOk \in BOOLEAN :
         \E r \in {ApplyMutation(call, cm["tools"], file, env, writeOk)} :
           /\ input' = [tool |-> "mutate", call |-> call, writeOk |-> writeOk]
           /\ result' = [op |-> call.op, threw |-> r.threw]
           /\ file' = r.file
           /\ cm' = [cm EXCEPT !["tools"] = r.config]
    /\ UNCHANGED <<env, cache, remote, now>>

NextMutate ==
    \/ Mutate
    \/ /\ Len(EffectiveOf(cm["tools"], file).polyfills) <= MaxPolyfills
       /\ ManageConfig(MutateArgs)

SpecMutate == InitMutate /\ [][NextMutate]_vars

\* the fields a mutation names
NamedBy(call) ==
    CASE call.op = "updateConfig" -> DOMAIN call.updates
      [] call.op \in {"addPolyfill", "removePolyfill"} -> {"polyfills"}
      [] call.op = "setFeatureOverride" -> {"overrides"}

\* C25: with one writer no update is lost and no unrelated field changes: a
\* mutation that succeeds gives the fields it names the value it was given
\* and leaves every other field of the effective configuration, the
\* polyfill list included, as it was, with or without polyfills from the
\* environment.
C25_MutationFrame ==
    [][(input'.tool = "mutate" /\ ~result'.threw) =>
          LET call   == input'.call
              before == EffectiveOf(cm["tools"], file)
              after  == EffectiveOf(cm'["tools"], file')
          IN  /\ \A k \in (DOMAIN before) \ NamedBy(call) : after[k] = before[k]
              /\ call.op = "updateConfig" =>
                   \A k \in DOMAIN call.updates : after[k] = call.updates[k]
              /\ call.op = "setFeatureOverride" =>
                   after.overrides =
                     Spread(before.overrides, (call.feature :> call.supportStatus))
              /\ call.op = "addPolyfill" =>
                   after.polyfills =
                     IF isFeaturePolyfilled(before, call.feature)
                     THEN before.polyfills
                     ELSE Append(before.polyfills, call.feature)]_vars

\* the step is a manage_config call of this action that reported success
Managed(action) ==
    /\ input'.tool = "manage_config"
    /\ input'.args.action = action
    /\ result'.output.success

\* C26: after manage_config reset has returned success, no environment
\* overrides set, the effective configuration is the default configuration
\* in every field (baseline chrome-37, no custom targets, no polyfills, no
\* overrides, the default fallback version lists), whatever was persisted.
C26_ResetRestoresDefaults ==
    [][(Managed("reset") /\ env = EmptyMap) =>
          EffectiveOf(cm'["tools"], file') = defaultConfig]_vars

\* the step is a removal of the polyfill f that returned success
Removed(f) ==
    \/ /\ input'.tool = "mutate"
       /\ input'.call = [op |-> "removePolyfill", feature |-> f]
       /\ ~result'.threw
    \/ /\ Managed("remove_polyfill")
       /\ input'.args.polyfill = f

\* addPolyfill(f) and then removePolyfill(f), both written, from the
\* manager's cached configuration and the file: the polyfill list after
AddThenRemove(cached, fileNow, f) ==
    LET added   == addPolyfill(cached, fileNow, env, f, TRUE)
        removed == removePolyfill(added.config, added.file, env, f, TRUE)
    IN  EffectiveOf(removed.config, removed.file).polyfills

\* C27: after removePolyfill(f) (manage_config remove_polyfill) has returned
\* success, f is not in the effective polyfill list and isFeaturePolyfilled(f)
\* is false, whatever the configuration was; and addPolyfill(f) followed by
\* removePolyfill(f), f not polyfilled before, restores the polyfill list.
C27_RemovePolyfillRemoves ==
    [][\A f \in {"css-grid", "promises"} :
          /\ Removed(f) =>
               ~isFeaturePolyfilled(EffectiveOf(cm'["tools"], file'), f)
          /\ ~isFeaturePolyfilled(EffectiveOf(cm["tools"], file), f) =>
               AddThenRemove(cm["tools"], file, f) =
                  EffectiveOf(cm["tools"], file).polyfills]_vars

\* the call writes the configuration file
Writes(call, config) ==
    CASE call.op = "addPolyfill"    -> ~isFeaturePolyfilled(config, call.feature)
      [] call.op = "removePolyfill" -> isFeaturePolyfilled(config, call.feature)
      [] OTHER -> TRUE

\* C30: when the write of the configuration file fails during addPolyfill,
\* removePolyfill, setFeatureOverride or updateConfig, the call fails and
\* the effective configuration that later loadConfig, isFeaturePolyfilled
\* and getFeatureOverride calls see is the one before the call.
C30_FailedWriteChangesNothing ==
    [][(/\ input'.tool = "mutate"
        /\ ~input'.writeOk
        /\ Writes(input'.call, EffectiveOf(cm["tools"], file))) =>
          /\ result'.threw
          /\ EffectiveOf(cm'["tools"], file') = EffectiveOf(cm["tools"], file)]_vars

----------------------------------------------------------------------------
(* The provenance of a decision, under the resolver SpecResolve.           *)

\* the provenance the configuration, the request and the matrix call for
ProvenanceDue ==
    CASE input.featureName \in DOMAIN ClientConfig.overrides -> "config-override"
      [] result.fetched /\ input.response # "ok" -> "error"
      [] InPolyfills /\ RawCode \notin {"y", "a"} -> "polyfill"
      [] OTHER -> "caniuse-data"

\* C28: every decision of getFeatureSupportWithConfig has one provenance,
\* an override before a polyfill upgrade before the raw data, error when the
\* matrix is unavailable, and its fields agree with it: config-override iff
\* the kind is override or override-disabled; polyfill iff the kind is
\* polyfilled, supported is true and originalSupport.supported is false;
\* error iff the kind is error and supported is false; else caniuse-data,
\* with supported true exactly when the raw code is full or partial.
C28_ProvenanceConsistent ==
    ResolveDone =>
        LET d == result.decision
        IN  /\ d.source = ProvenanceDue
            /\ d.source = "config-override" <=>
                  d.type \in {"override", "override-disabled"}
            /\ d.source = "polyfill" <=>
                  (d.type = "polyfilled" /\ d.supported
                     /\ ~d.originalSupport.supported)
            /\ d.source = "error" <=> (d.type = "error" /\ ~d.supported)
            /\ d.source = "caniuse-data" =>
                  /\ d.type \notin {"override", "override-disabled",
                                    "polyfilled", "error"}
                  /\ d.supported <=> d.rawValue \in {"y", "a"}

\* a feature that has an override and is polyfilled, its code n: the
\* override decides
C28_Witness ==
    /\ ResolveDone
    /\ input.featureName \in DOMAIN ClientConfig.overrides
    /\ InPolyfills
    /\ remote[input.featureName] = [hasStats |-> TRUE,
                                    stats |-> (chrome :> <<<<v37, "n">>>>)]
    /\ input.browser = chrome /\ input.version = v37
    /\ result.decision.source = "config-override"

----------------------------------------------------------------------------
(* The result of a scan, under the scanner SpecScan.                       *)

\* the files of the per-file list in which the feature was detected, in the
\* order of the list
FilesWith(files, feature) ==
    LET Detected(fileResult) == Includes(fileResult.features, feature)
        with == SelectSeq(files, Detected)
    IN  [k \in 1..Len(with) |-> [file |-> with[k].file]]

\* C29: at the end of scanDirectory the feature index is the inverse of the
\* per-file list: a file is under feature f iff f was detected in it, in the
\* order the files were met; a file without detected features is in neither;
\* and summary.totalFiles is the length of the per-file list and the sum of
\* jsFiles and cssFiles.
C29_IndexInvertsFileList ==
    ScanDone =>
        LET v == result.value
            indexed == {v.features[k].feature : k \in 1..Len(v.features)}
            detected == UNION {Range(v.files[j].features) : j \in 1..Len(v.files)}
        IN  /\ indexed = detected
            /\ \A k, k2 \in 1..Len(v.features) :
                 v.features[k].feature = v.features[k2].feature => k = k2
            /\ \A k \in 1..Len(v.features) :
                 v.features[k].files = FilesWith(v.files, v.features[k].feature)
            /\ \A j \in 1..Len(v.files) : v.files[j].features # <<>>
            /\ \A path \in ScannedPaths :
                 (scanFile(path, TextOf(path[Len(path)])).features = <<>>)
                    <=> path \notin ResultPaths
            /\ v.summary.totalFiles = Len(v.files)
            /\ v.summary.totalFiles = v.summary.jsFiles + v.summary.cssFiles
            /\ v.summary.featuresFound = Cardinality(detected)

\* a.js of the root and of src are both under arrow-functions, in the order
\* they were met; e.ts was scanned and has no features; a style sheet counts
C29_Witness ==
    /\ ScanDone
    /\ \E k \in 1..Len(result.value.features) :
         /\ result.value.features[k].feature = "arrow-functions"
         /\ Len(result.value.features[k].files) >= 2
         /\ SubSeq(result.value.features[k].files, 1, 2) =
               <<[file |-> <<srcDir, a_js>>], [file |-> <<a_js>>]>>
    /\ <<e_ts>> \in ScannedPaths \ ResultPaths
    /\ result.value.summary.cssFiles > 0
    /\ result.value.summary.jsFiles > 1

============================================================================
